---- MODULE Spec2Model ----
(***************************************************************************)
(* Camera-session lifecycle of alloy-echo-vision: the useCamera hook in    *)
(* all the versions the repository holds, driven by the WebcamCapture      *)
(* component, the device capability (navigator.mediaDevices.getUserMedia,  *)
(* navigator.permissions.query) and the timer capability (setTimeout).     *)
(*                                                                         *)
(* The hook versions (variable variant):                                   *)
(*   "A1"  src/src/hooks/useCamera.ts used by                              *)
(*         src/src/components/WebcamCapture.tsx (no caller of startCamera) *)
(*   "A3"  src/src/hooks/useCamera.ts used by the WebcamCapture of         *)
(*         src/unnamed/part_004:209-341 (effect calls startCamera)         *)
(*   "B"   src/unnamed/part_001                                            *)
(*   "C"   src/unnamed/part_000:1-162    (3000 ms wait timer)              *)
(*   "D"   src/unnamed/part_000:165-321  (permissionGranted gate)          *)
(*   "E"   src/unnamed/part_002          (5000 ms wait timer, window event)*)
(*   "F"   src/unnamed/part_003          (permissions.query first)         *)
(*                                                                         *)
(* One action is one task of the host event loop: a caller event or a      *)
(* promise/timer completion, the handler it runs up to its next await, and *)
(* the render and effects that follow.  A handler is an operator from a    *)
(* record of the mutable state to the record after it; the values a        *)
(* closure captured at its render are passed as explicit arguments.        *)
(* A media stream is named by the id of the getUserMedia call that         *)
(* returned it; 0 is null.                                                 *)
(*                                                                         *)
(* Five specifications: Spec is the hook and its callers; SpecView adds    *)
(* the video element of WebcamCapture (loadeddata, play()) with weak       *)
(* fairness on its events; SpecCapture adds captureImage and the           *)
(* continuous-capture interval of WebcamCapture; SpecAI is the assistant,  *)
(* class AIProcessor with the generative-language API and                  *)
(* window.speechSynthesis, with the camera left as constructed; SpecVoice  *)
(* is VoiceControls with the recognition object, the microphone permission *)
(* request and the same speechSynthesis.                                   *)
(***************************************************************************)
EXTENDS Integers, FiniteSets, Sequences, TLC

\* Bound on the number of device calls (getUserMedia, permissions.query) issued.
MaxCalls == 3

VARIABLES
    variant,            \* which version of the hook (and component) runs
    supported,          \* navigator.mediaDevices / navigator.permissions exist
    enabled0,           \* the enabled prop at the first render (captured by useCallback(..., []))
    mounted,            \* the mount effects have run
    unmounted,          \* the component has unmounted (its effect cleanups have run)
    enabled,            \* prop enabled
    facingMode,         \* prop facingMode (WebcamCapture's state)
    stream,             \* useState stream
    error,              \* useState error
    isLoading,          \* useState isLoading
    isReady,            \* useState isReady
    permissionGranted,  \* useState permissionGranted: "null", "true", "false"
    streamRef,          \* useRef streamRef.current
    timeoutRef,         \* useRef timeoutRef.current (a timer id, never reset to null)
    currentFacingMode,  \* useRef currentFacingMode.current (version E)
    cleanupStream,      \* the stream captured by the pending cleanup of the [enabled] effect (C, E)
    open,               \* streams whose tracks have not been stopped
    calls,              \* device calls in flight
    timers,             \* wait timers set and neither fired nor cleared
    nCalls,             \* device calls issued so far
    unhandled,          \* a promise returned by a function of the hook has rejected
    videoReady,         \* useState videoReady of WebcamCapture
    video,              \* the loadeddata listener of the [stream] effect: "none", "attached" (srcObject set, waiting for loadeddata), "fired"
    playPending,        \* a video.play() promise is pending
    hasSpeech,          \* 'speechSynthesis' in window
    messages,           \* the processMessage calls of the AIProcessor
    utterances,         \* the utterance queue of window.speechSynthesis
    nMessages,          \* processMessage calls made so far
    continuousCapture,  \* prop continuousCapture of WebcamCapture (src/unnamed/part_004:18)
    intervalRef,        \* useRef intervalRef.current: an interval id, 0 is null
    intervals,          \* capture intervals set and not cleared, each with the isReady and videoReady its callback captured
    captureCleanup,     \* the last run of the continuous-capture effect returned its cleanup
    output,             \* what the running captureImage call or interval callback has returned and handed to the parent
    recognitionSupported, \* window.webkitSpeechRecognition || window.SpeechRecognition exists
    micSupported,       \* navigator.mediaDevices.getUserMedia exists
    isRecording,        \* useState isRecording of VoiceControls
    speechError,        \* useState speechError of VoiceControls
    reportedListening,  \* the values handed to onListeningChange, the last one only (<<>>: none yet)
    reportedSpeaking,   \* the values handed to onSpeakingChange, the last one only (<<>>: none yet)
    recognition,        \* the recognition object: "idle", "starting" (start() called), "started" (onstart fired), "ending" (stopped, aborted or failed; onend to come)
    listens,            \* the startListening calls, each with the isRecording of its closure and the log of what it did
    nListens,           \* startListening calls made so far
    micOpen,            \* audio streams opened by getUserMedia({audio: true}) whose tracks have not been stopped
    voiceUnmounted      \* VoiceControls has unmounted

vars == <<variant, supported, enabled0, mounted, unmounted, enabled, facingMode, stream, error,
          isLoading, isReady, permissionGranted, streamRef, timeoutRef,
          currentFacingMode, cleanupStream, open, calls, timers, nCalls, unhandled,
          videoReady, video, playPending,
          hasSpeech, messages, utterances, nMessages,
          continuousCapture, intervalRef, intervals, captureCleanup, output,
          recognitionSupported, micSupported, isRecording, speechError,
          reportedListening, reportedSpeaking, recognition, listens, nListens,
          micOpen, voiceUnmounted>>

\* The state of VoiceControls, the recognition object and the microphone.
VoiceVars == <<recognitionSupported, micSupported, isRecording, speechError,
               reportedListening, reportedSpeaking, recognition, listens, nListens,
               micOpen, voiceUnmounted>>

\* The capture state of WebcamCapture.
CaptureVars == <<continuousCapture, intervalRef, intervals, captureCleanup, output>>

\* The state of the assistant (AIProcessor and the speech synthesis of the window).
AIVars == <<hasSpeech, messages, utterances, nMessages>>

Variants == {"A1", "A3", "B", "C", "D", "E", "F"}

FacingModes == {"user", "environment"}

\* The names of the errors getUserMedia rejects with; "AbortError" stands for
\* every name no version of the hook tests for.
ErrorNames == {"NotAllowedError", "NotFoundError", "NotReadableError",
               "OverconstrainedError", "NotSupportedError", "AbortError"}

\* What getUserMedia can reject with: an Error with one of these names, or a
\* value that is not an instance of Error ("NonError": the catch blocks test
\* err instanceof Error).
RejectionValues == ErrorNames \cup {"NonError"}

\* The states navigator.permissions.query resolves with; "unsupported" is its rejection.
PermissionStates == {"granted", "denied", "prompt", "unsupported"}

----------------------------------------------------------------------------
(* The mutable state as one record, and its write-back. *)

Cur ==
    [stream |-> stream, error |-> error, isLoading |-> isLoading, isReady |-> isReady,
     permissionGranted |-> permissionGranted, streamRef |-> streamRef,
     timeoutRef |-> timeoutRef, currentFacingMode |-> currentFacingMode,
     open |-> open, calls |-> calls, timers |-> timers,
     nCalls |-> nCalls, over |-> FALSE, rejected |-> FALSE]

\* The state setters of an unmounted component do nothing; refs, tracks, timers
\* and device calls are not React state and still change.
Commit(r) ==
    /\ ~r.over
    /\ stream' = IF unmounted THEN stream ELSE r.stream
    /\ error' = IF unmounted THEN error ELSE r.error
    /\ isLoading' = IF unmounted THEN isLoading ELSE r.isLoading
    /\ isReady' = IF unmounted THEN isReady ELSE r.isReady
    /\ permissionGranted' = IF unmounted THEN permissionGranted ELSE r.permissionGranted
    /\ streamRef' = r.streamRef
    /\ timeoutRef' = r.timeoutRef
    /\ currentFacingMode' = r.currentFacingMode
    /\ open' = r.open
    /\ calls' = r.calls
    /\ timers' = r.timers
    /\ nCalls' = r.nCalls
    /\ unhandled' = (unhandled \/ r.rejected)

----------------------------------------------------------------------------
(* Device and timer capabilities. *)

\* track.stop() on every track of stream s (idempotent).
StopTracks(r, s) == [r EXCEPT !.open = @ \ {s}]

\* clearTimeout(timeoutRef.current), guarded by if (timeoutRef.current).
ClearTimeoutRef(r) ==
    IF r.timeoutRef # 0 THEN [r EXCEPT !.timers = @ \ {r.timeoutRef}] ELSE r

\* timeoutRef.current = setTimeout(...). The timer is named by the id of the
\* getUserMedia call its attempt goes on to issue.
SetTimeoutRef(r) ==
    [r EXCEPT !.timeoutRef = r.nCalls + 1, !.timers = @ \cup {r.nCalls + 1}]

\* A call of kind "acquire" (getUserMedia with the hook's constraints), "probe"
\* (getUserMedia of requestPermission) or "query" (permissions.query) goes in
\* flight. fm is the facingMode constraint, timer the wait timer of the attempt
\* (0: none), cFacing and cPG the facingMode and permissionGranted captured by
\* the continuation's closure, org the caller event that started it ("enable":
\* enabled became true; "rpDenied": requestPermission() called in
\* Failed(PermissionDenied); "other").
Issue(r, kind, fm, timer, cFacing, cPG, org) ==
    IF r.nCalls >= MaxCalls
    THEN [r EXCEPT !.over = TRUE]
    ELSE [r EXCEPT !.nCalls = @ + 1,
                   !.calls = @ \cup
                       {[id |-> r.nCalls + 1, kind |-> kind, fm |-> fm, timer |-> timer,
                         cFacing |-> cFacing, cPG |-> cPG, org |-> org]}]

\* The call leaves flight (its promise settles).
Settle(r, c) == [r EXCEPT !.calls = @ \ {c}]

\* The device returns stream c.id for call c: its tracks are live.
Deliver(r, c) == [Settle(r, c) EXCEPT !.open = @ \cup {c.id}]

\* if (err instanceof Error) { ... setError(msg) ... }: no message is set for a
\* caught value that is not an Error.
IfInstanceOfError(r, name, msg) ==
    IF name = "NonError" THEN r ELSE [r EXCEPT !.error = msg]

----------------------------------------------------------------------------
(* The error messages of the hook, as written in the source (a double quote *)
(* inside a message is written as a single quote).                          *)

TimeoutMessage_C == "Camera is taking too long to load. Click 'Grant Permission' to try again."
TimeoutMessage_E == "Camera is taking too long to load. Please try refreshing the page or check your camera."

\* The messages that contain "taking too long".
TakingTooLong == {TimeoutMessage_C, TimeoutMessage_E}

\* catch block of startCamera, src/src/hooks/useCamera.ts: the error message for err.name.
ErrorMessage_A(name) ==
    CASE name = "NotAllowedError" -> "Camera access denied. Click 'Grant Permission' below."
      [] name = "NotFoundError" -> "No camera found on this device."
      [] OTHER -> "Unable to access camera. Please try again."

\* catch block of startCamera, src/unnamed/part_001.
ErrorMessage_B(name) ==
    CASE name = "NotAllowedError" -> "Camera access denied. Please allow camera access."
      [] name = "NotFoundError" -> "No camera found on this device."
      [] name = "NotReadableError" -> "Camera is already in use by another application."
      [] OTHER -> "Camera error: <err.message>"

\* catch block of initializeCamera, src/unnamed/part_000 (first hook).
ErrorMessage_C(name) ==
    CASE name = "NotAllowedError" -> "Camera access denied. Click 'Grant Permission' to allow camera access."
      [] name = "NotFoundError" -> "No camera found. Please connect a camera device."
      [] name = "NotReadableError" -> "Camera is being used by another application. Please close other camera apps."
      [] OTHER -> "Unable to access camera. Click 'Grant Permission' to try again."

\* catch block of startCamera, src/unnamed/part_000 (second hook).
ErrorMessage_D(name) ==
    CASE name = "NotAllowedError" -> "Camera access denied. Please allow camera access below."
      [] name = "NotFoundError" -> "No camera found on this device."
      [] OTHER -> "Camera error: <err.message>"

\* catch block of initializeCamera, src/unnamed/part_002. The Error thrown by the
\* hook itself when getUserMedia is absent carries its own message.
ErrorMessage_E(name) ==
    CASE name = "NotAllowedError" -> "Camera access denied. Please grant camera permission to continue."
      [] name = "NotFoundError" -> "No camera found. Please connect a camera device."
      [] name = "NotReadableError" -> "Camera is already in use by another application. Please close other camera apps and try again."
      [] name = "OverconstrainedError" -> "Camera settings not supported. Please try switching cameras."
      [] name = "NotSupportedError" -> "Camera not supported by this browser."
      [] name = "Error" -> "Camera not supported by this browser"
      [] name = "NonError" -> "Unable to access camera. Please check your permissions and try again."
      [] OTHER -> "<err.message>"

\* catch block of startCamera, src/unnamed/part_003.
ErrorMessage_F(name) ==
    CASE name = "NotAllowedError" -> "Camera access denied. Please click 'Allow Camera' below."
      [] name = "NotFoundError" -> "No camera found on this device."
      [] OTHER -> "Camera error: <err.message>"

\* catch block of requestPermission (the probe failed), per version.
ProbeMessage_A(name) == "Camera permission denied. Please allow camera access."

ProbeMessage_C(name) ==
    IF name = "NotAllowedError"
    THEN "Camera permission was denied. Please click 'Grant Permission' and allow camera access."
    ELSE "Failed to request camera permission. Please try again."

ProbeMessage_DF(name) ==
    CASE name = "NotAllowedError" -> "Camera access denied. Please click the camera icon in your browser's address bar to allow access."
      [] name = "NotFoundError" -> "No camera found on this device."
      [] OTHER -> "Unable to access camera. Please try again."

ProbeMessage_E(name) ==
    IF name = "NotAllowedError"
    THEN "Camera permission was denied. Please refresh the page and try again."
    ELSE "Failed to request camera permission. Please try again."

\* The messages the hook sets when it knows the permission is denied without asking the device.
DeniedMessage == "Camera permission denied. Please allow camera access."
DeniedMessage_F == "Camera permission denied. Please allow camera access in your browser settings."

----------------------------------------------------------------------------
(* stopCamera. *)

\* stopCamera of the versions that keep the stream in streamRef (A, B, D, F).
stopCamera_ref(r) ==
    LET r1 == IF r.streamRef # 0
              THEN [StopTracks(r, r.streamRef) EXCEPT !.streamRef = 0]
              ELSE r
    IN [r1 EXCEPT !.stream = 0, !.isReady = FALSE, !.isLoading = FALSE]

\* stopCamera of the versions that keep the stream in state only (C, E); cStream
\* is the stream its closure captured.
stopCamera_state(r, cStream) ==
    LET r1 == IF cStream # 0
              THEN [StopTracks(r, cStream) EXCEPT !.stream = 0]
              ELSE r
    IN ClearTimeoutRef([r1 EXCEPT !.isReady = FALSE, !.isLoading = FALSE])

----------------------------------------------------------------------------
(* Version A: src/src/hooks/useCamera.ts. *)

\* startCamera: the catch block.
startCamera_A_rejected(r, name) ==
    IfInstanceOfError([r EXCEPT !.isLoading = FALSE, !.isReady = FALSE],
                      name, ErrorMessage_A(name))

\* startCamera: after the await.
startCamera_A_resolved(r, s) ==
    [r EXCEPT !.streamRef = s, !.stream = s, !.isLoading = FALSE, !.isReady = TRUE]

\* startCamera up to the await; cEnabled and cFacing are the props its closure captured.
startCamera_A(r, cEnabled, cFacing) ==
    IF ~cEnabled
    THEN stopCamera_ref(r)
    ELSE LET r1 == stopCamera_ref([r EXCEPT !.error = "", !.isLoading = TRUE,
                                            !.isReady = FALSE])
         IN IF supported
            THEN Issue(r1, "acquire", cFacing, 0, "user", "null", "other")
            ELSE startCamera_A_rejected(r1, "TypeError")

\* A variant of requestPermission_A_rejected that rethrows what it caught: the
\* promise requestPermission returned rejects.
requestPermission_A_rejected_Rethrows(r, name) ==
    [r EXCEPT !.error = ProbeMessage_A(name), !.rejected = TRUE]

\* requestPermission: the catch block.
requestPermission_A_rejected(r, name) == [r EXCEPT !.error = ProbeMessage_A(name)]

\* A variant of requestPermission_A_resolved that does not stop the temporary stream.
requestPermission_A_resolved_KeepsProbe(r, s) == startCamera_A(r, enabled0, "user")

\* requestPermission after the await: the temporary stream s is stopped and the
\* startCamera of the first render is called (useCallback(..., [])).
requestPermission_A_resolved(r, s) ==
    startCamera_A(StopTracks(r, s), enabled0, "user")

\* requestPermission up to the await.
requestPermission_A(r, org) ==
    LET r1 == [r EXCEPT !.error = ""]
    IN IF supported
       THEN Issue(r1, "probe", "any", 0, "user", "null", org)
       ELSE requestPermission_A_rejected(r1, "TypeError")

----------------------------------------------------------------------------
(* Version B: src/unnamed/part_001. *)

startCamera_B_rejected(r, name) ==
    LET r1 == IfInstanceOfError([r EXCEPT !.isLoading = FALSE, !.isReady = FALSE],
                                name, ErrorMessage_B(name))
    IN IF name = "NotAllowedError"
       THEN [r1 EXCEPT !.permissionGranted = "false"]
       ELSE r1

startCamera_B_resolved(r, s) ==
    [r EXCEPT !.streamRef = s, !.stream = s, !.isLoading = FALSE, !.isReady = TRUE,
              !.permissionGranted = "true"]

startCamera_B(r, cEnabled, cFacing) ==
    IF ~cEnabled
    THEN stopCamera_ref(r)
    ELSE LET r1 == [r EXCEPT !.error = "", !.isLoading = TRUE]
             r2 == IF r1.streamRef # 0 THEN StopTracks(r1, r1.streamRef) ELSE r1
         IN IF supported
            THEN Issue(r2, "acquire", cFacing, 0, "user", "null", "other")
            ELSE startCamera_B_rejected(r2, "TypeError")

\* useEffect(..., [enabled, facingMode, startCamera]).
effect_B(r, cEnabled, cFacing) ==
    IF ~cEnabled
    THEN [stopCamera_ref(r) EXCEPT !.permissionGranted = "null", !.error = ""]
    ELSE startCamera_B(r, cEnabled, cFacing)

\* requestPermission: calls the current startCamera.
requestPermission_B(r, cEnabled, cFacing) == startCamera_B(r, cEnabled, cFacing)

----------------------------------------------------------------------------
(* Version C: src/unnamed/part_000, first hook. *)

initializeCamera_C_rejected(r, name) ==
    IfInstanceOfError(ClearTimeoutRef([r EXCEPT !.isLoading = FALSE, !.isReady = FALSE]),
                      name, ErrorMessage_C(name))

\* A variant of initializeCamera_C_resolved that treats the fired timer as an
\* abort: a stream that arrives after the timeout is stopped, not installed.
initializeCamera_C_resolved_AbortsLate(r, s) ==
    IF r.timeoutRef # 0 /\ r.timeoutRef \notin r.timers
    THEN StopTracks(r, s)
    ELSE [ClearTimeoutRef(r) EXCEPT !.stream = s, !.isLoading = FALSE, !.isReady = TRUE]

\* initializeCamera after the await: the timer timeoutRef holds now is cleared.
initializeCamera_C_resolved(r, s) ==
    [ClearTimeoutRef(r) EXCEPT !.stream = s, !.isLoading = FALSE, !.isReady = TRUE]

\* initializeCamera up to the await; cEnabled, cFacing and cStream are the props
\* and the stream state its closure captured.
initializeCamera_C(r, cEnabled, cFacing, cStream) ==
    IF ~cEnabled
    THEN r
    ELSE LET r1 == [r EXCEPT !.error = "", !.isLoading = TRUE, !.isReady = FALSE]
             r2 == SetTimeoutRef(ClearTimeoutRef(r1))
             r3 == IF cStream # 0
                   THEN [StopTracks(r2, cStream) EXCEPT !.stream = 0]
                   ELSE r2
         IN IF supported
            THEN Issue(r3, "acquire", cFacing, r3.timeoutRef, "user", "null", "other")
            ELSE initializeCamera_C_rejected(r3, "Error")

\* A variant of timeout_C that forgets setIsLoading(false).
timeout_C_KeepsLoading(r) == [r EXCEPT !.error = TimeoutMessage_C]

\* The wait timer's callback (setTimeout(..., 3000)).
timeout_C(r) == [r EXCEPT !.isLoading = FALSE, !.error = TimeoutMessage_C]

requestPermission_C_rejected(r, name) == IfInstanceOfError(r, name, ProbeMessage_C(name))

\* requestPermission after the await: the initializeCamera of the first render
\* (useCallback(..., [])), whose closure holds the first render's props and a null stream.
requestPermission_C_resolved(r, s) ==
    initializeCamera_C(StopTracks(r, s), enabled0, "user", 0)

requestPermission_C(r, org) ==
    LET r1 == [r EXCEPT !.error = ""]
    IN IF supported
       THEN Issue(r1, "probe", "any", 0, "user", "null", org)
       ELSE requestPermission_C_rejected(r1, "TypeError")

\* useEffect(..., [enabled]): the cleanup of its previous run (the stopCamera of
\* that render), then its body.
effectEnabled_C(r, cEnabled, cFacing, cStream) ==
    LET r1 == IF mounted THEN stopCamera_state(r, cleanupStream) ELSE r
    IN IF cEnabled
       THEN initializeCamera_C(r1, cEnabled, cFacing, cStream)
       ELSE stopCamera_state(r1, cStream)

\* useEffect(..., [facingMode]).
effectFacing_C(r, cEnabled, cFacing, cStream) ==
    IF cEnabled /\ cStream # 0
    THEN initializeCamera_C(r, cEnabled, cFacing, cStream)
    ELSE r

----------------------------------------------------------------------------
(* Version E: src/unnamed/part_002. *)

initializeCamera_E_rejected(r, name) ==
    ClearTimeoutRef([r EXCEPT !.isLoading = FALSE, !.isReady = FALSE,
                              !.error = ErrorMessage_E(name)])

\* A variant of initializeCamera_E_resolved that leaves the wait timer running.
initializeCamera_E_resolved_KeepsTimer(r, s) ==
    [r EXCEPT !.stream = s, !.isLoading = FALSE, !.isReady = TRUE]

initializeCamera_E_resolved(r, s) ==
    [ClearTimeoutRef(r) EXCEPT !.stream = s, !.isLoading = FALSE, !.isReady = TRUE]

\* initializeCamera up to the await: no test of enabled; the facing mode is read
\* from the currentFacingMode ref.
initializeCamera_E(r, cStream) ==
    LET r1 == [r EXCEPT !.error = "", !.isLoading = TRUE, !.isReady = FALSE]
        r2 == SetTimeoutRef(ClearTimeoutRef(r1))
        r3 == IF cStream # 0
              THEN [StopTracks(r2, cStream) EXCEPT !.stream = 0]
              ELSE r2
    IN IF supported
       THEN Issue(r3, "acquire", r3.currentFacingMode, r3.timeoutRef,
                  "user", "null", "other")
       ELSE initializeCamera_E_rejected(r3, "Error")

\* A variant of timeout_E that retries the acquisition by itself.
timeout_E_Retries(r) ==
    initializeCamera_E([r EXCEPT !.isLoading = FALSE, !.error = TimeoutMessage_E], 0)

\* The wait timer's callback (setTimeout(..., 5000)).
timeout_E(r) == [r EXCEPT !.isLoading = FALSE, !.error = TimeoutMessage_E]

requestPermission_E_rejected(r, name) == IfInstanceOfError(r, name, ProbeMessage_E(name))

\* The 'camera-permission-granted' listener, re-subscribed at every render that
\* changed enabled or initializeCamera: it sees the current enabled and stream.
handlePermissionGranted_E(r, cEnabled, cStream) ==
    IF cEnabled THEN initializeCamera_E(r, cStream) ELSE r

\* requestPermission after the await: the event is dispatched.
requestPermission_E_resolved(r, s, cEnabled, cStream) ==
    handlePermissionGranted_E(StopTracks(r, s), cEnabled, cStream)

requestPermission_E(r, org) ==
    LET r1 == [r EXCEPT !.error = ""]
    IN IF supported
       THEN Issue(r1, "probe", "any", 0, "user", "null", org)
       ELSE requestPermission_E_rejected(r1, "TypeError")

\* useEffect(..., [enabled]): cleanup (stopCamera and clearTimeout), then body.
effectEnabled_E(r, cEnabled, cStream) ==
    LET r1 == IF mounted
              THEN ClearTimeoutRef(stopCamera_state(r, cleanupStream))
              ELSE r
    IN IF cEnabled
       THEN initializeCamera_E(r1, cStream)
       ELSE stopCamera_state(r1, cStream)

\* The two useEffect(..., [facingMode]): the ref is updated, then the camera is
\* reinitialized if a stream is held.
effectFacing_E(r, cEnabled, cFacing, cStream) ==
    LET r1 == [r EXCEPT !.currentFacingMode = cFacing]
    IN IF cEnabled /\ cStream # 0
       THEN initializeCamera_E(r1, cStream)
       ELSE r1

----------------------------------------------------------------------------
(* Version D: src/unnamed/part_000, second hook. *)

startCamera_D_rejected(r, name) ==
    LET r1 == IfInstanceOfError([r EXCEPT !.isLoading = FALSE, !.isReady = FALSE],
                                name, ErrorMessage_D(name))
    IN IF name = "NotAllowedError"
       THEN [r1 EXCEPT !.permissionGranted = "false"]
       ELSE r1

startCamera_D_resolved(r, s) ==
    [r EXCEPT !.streamRef = s, !.stream = s, !.isLoading = FALSE, !.isReady = TRUE,
              !.permissionGranted = "true"]

\* startCamera up to the await; cPG is the permissionGranted its closure captured.
startCamera_D(r, cEnabled, cFacing, cPG) ==
    IF ~cEnabled
    THEN stopCamera_ref(r)
    ELSE IF cPG = "false"
    THEN [r EXCEPT !.error = DeniedMessage, !.isLoading = FALSE]
    ELSE LET r1 == [r EXCEPT !.error = "", !.isLoading = TRUE]
             r2 == IF r1.streamRef # 0 THEN StopTracks(r1, r1.streamRef) ELSE r1
         IN IF supported
            THEN Issue(r2, "acquire", cFacing, 0, "user", "null", "other")
            ELSE startCamera_D_rejected(r2, "TypeError")

requestPermission_D_rejected(r, name) ==
    IfInstanceOfError([r EXCEPT !.permissionGranted = "false", !.isLoading = FALSE],
                      name, ProbeMessage_DF(name))

\* requestPermission after the await: the startCamera of the first render
\* (useCallback(..., [])), whose closure holds the first render's props and a
\* null permissionGranted.
requestPermission_D_resolved(r, s) ==
    startCamera_D([StopTracks(r, s) EXCEPT !.permissionGranted = "true"],
                  enabled0, "user", "null")

requestPermission_D(r, org) ==
    LET r1 == [r EXCEPT !.error = "", !.isLoading = TRUE]
    IN IF supported
       THEN Issue(r1, "probe", "user", 0, "user", "null", org)
       ELSE requestPermission_D_rejected(r1, "TypeError")

\* useEffect(..., [enabled]).
effectEnabled_D(r, cEnabled, cFacing, cPG) ==
    IF ~cEnabled
    THEN [stopCamera_ref(r) EXCEPT !.permissionGranted = "null"]
    ELSE IF cPG = "false"
    THEN [r EXCEPT !.error = DeniedMessage, !.isLoading = FALSE]
    ELSE startCamera_D(r, cEnabled, cFacing, cPG)

\* useEffect(..., [facingMode]).
effectFacing_D(r, cEnabled, cFacing, cPG, cLoading) ==
    IF cEnabled /\ cPG = "true" /\ ~cLoading
    THEN startCamera_D(r, cEnabled, cFacing, cPG)
    ELSE r

----------------------------------------------------------------------------
(* Version F: src/unnamed/part_003. *)

startCamera_F_rejected(r, name) ==
    LET r1 == IfInstanceOfError([r EXCEPT !.isLoading = FALSE, !.isReady = FALSE],
                                name, ErrorMessage_F(name))
    IN IF name = "NotAllowedError"
       THEN [r1 EXCEPT !.permissionGranted = "false"]
       ELSE r1

startCamera_F_resolved(r, s) ==
    [r EXCEPT !.streamRef = s, !.stream = s, !.isLoading = FALSE, !.isReady = TRUE,
              !.permissionGranted = "true"]

startCamera_F(r, cEnabled, cFacing, cPG) ==
    IF ~cEnabled
    THEN stopCamera_ref(r)
    ELSE IF cPG = "false"
    THEN [r EXCEPT !.error = DeniedMessage]
    ELSE LET r1 == [r EXCEPT !.error = "", !.isLoading = TRUE]
             r2 == IF r1.streamRef # 0 THEN StopTracks(r1, r1.streamRef) ELSE r1
         IN IF supported
            THEN Issue(r2, "acquire", cFacing, 0, "user", "null", "other")
            ELSE startCamera_F_rejected(r2, "TypeError")

requestPermission_F_rejected(r, name) ==
    IfInstanceOfError([r EXCEPT !.permissionGranted = "false", !.isLoading = FALSE],
                      name, ProbeMessage_DF(name))

requestPermission_F_resolved(r, s) ==
    startCamera_F([StopTracks(r, s) EXCEPT !.permissionGranted = "true"],
                  enabled0, "user", "null")

requestPermission_F(r, org) ==
    LET r1 == [r EXCEPT !.error = "", !.isLoading = TRUE]
    IN IF supported
       THEN Issue(r1, "probe", "user", 0, "user", "null", org)
       ELSE requestPermission_F_rejected(r1, "TypeError")

\* checkPermission after the await, and the then-callback of the [enabled]
\* effect that called it: state is the permission state the query resolved with
\* ("unsupported": it rejected); cFacing and cPG are what the startCamera of the
\* effect's render captured (its enabled is true).
checkPermission_F_resolved(r, state, cFacing, cPG) ==
    CASE state = "granted" ->
           startCamera_F([r EXCEPT !.permissionGranted = "true", !.error = ""],
                         TRUE, cFacing, cPG)
      [] state = "denied" ->
           [[r EXCEPT !.permissionGranted = "false", !.isLoading = FALSE,
                      !.error = DeniedMessage_F]
               EXCEPT !.error = DeniedMessage]
      [] state = "prompt" -> [r EXCEPT !.permissionGranted = "null"]
      [] OTHER -> r

\* useEffect(..., [enabled]): checkPermission() up to its await.
effectEnabled_F(r, cEnabled, cFacing, cPG, org) ==
    IF cEnabled /\ supported
    THEN Issue(r, "query", "any", 0, cFacing, cPG, org)
    ELSE r

effectFacing_F(r, cEnabled, cFacing, cPG, cLoading) ==
    IF cEnabled /\ cPG = "true" /\ ~cLoading
    THEN startCamera_F(r, cEnabled, cFacing, cPG)
    ELSE r

----------------------------------------------------------------------------
(* The session state the hook's flags encode (spec section 3), and the      *)
(* failure reason its message tells.                                        *)

PermissionDeniedMessages ==
    {ErrorMessage_A("NotAllowedError"), ErrorMessage_B("NotAllowedError"),
     ErrorMessage_C("NotAllowedError"), ErrorMessage_D("NotAllowedError"),
     ErrorMessage_E("NotAllowedError"), ErrorMessage_F("NotAllowedError"),
     ProbeMessage_A("NotAllowedError"), ProbeMessage_C("NotAllowedError"),
     ProbeMessage_DF("NotAllowedError"), ProbeMessage_E("NotAllowedError"),
     DeniedMessage, DeniedMessage_F}

DeviceNotFoundMessages ==
    {ErrorMessage_A("NotFoundError"), ErrorMessage_C("NotFoundError")}

DeviceBusyMessages ==
    {ErrorMessage_B("NotReadableError"), ErrorMessage_C("NotReadableError"),
     ErrorMessage_E("NotReadableError")}

ReasonOf(msg) ==
    CASE msg = "" -> "None"
      [] msg \in PermissionDeniedMessages -> "PermissionDenied"
      [] msg \in DeviceNotFoundMessages -> "DeviceNotFound"
      [] msg \in DeviceBusyMessages -> "DeviceBusy"
      [] msg = ErrorMessage_E("OverconstrainedError") -> "ConstraintsUnsupported"
      [] msg \in {ErrorMessage_E("NotSupportedError"), ErrorMessage_E("Error")} -> "Unsupported"
      [] msg \in TakingTooLong -> "Timeout"
      [] OTHER -> "Unknown"

\* Failed(PermissionDenied).
FailedDenied ==
    enabled /\ ~isReady /\ ~isLoading /\ ReasonOf(error) = "PermissionDenied"

----------------------------------------------------------------------------
(* The render after a prop change, and the effects it runs.  The closures   *)
(* of that render hold the new props and the state as it stands.            *)

\* WebcamCapture of src/unnamed/part_004:209-341: useEffect(..., [enabled, startCamera]).
effect_W3(r, cEnabled, cFacing) ==
    IF cEnabled THEN startCamera_A(r, cEnabled, cFacing) ELSE r

\* The effects with enabled among their dependencies (they also run at mount,
\* where the [facingMode] effects find no stream and no permission and do nothing).
EffectsEnabled(r, cEnabled, org) ==
    CASE variant = "A1" -> r
      [] variant = "A3" -> effect_W3(r, cEnabled, facingMode)
      [] variant = "B" -> effect_B(r, cEnabled, facingMode)
      [] variant = "C" -> effectEnabled_C(r, cEnabled, facingMode, stream)
      [] variant = "D" -> effectEnabled_D(r, cEnabled, facingMode, permissionGranted)
      [] variant = "E" -> effectEnabled_E(r, cEnabled, stream)
      [] variant = "F" -> effectEnabled_F(r, cEnabled, facingMode, permissionGranted, org)

\* The effects with facingMode (or startCamera) among their dependencies.
EffectsFacing(r, cFacing) ==
    CASE variant = "A1" -> r
      [] variant = "A3" -> effect_W3(r, enabled, cFacing)
      [] variant = "B" -> effect_B(r, enabled, cFacing)
      [] variant = "C" -> effectFacing_C(r, enabled, cFacing, stream)
      [] variant = "D" -> effectFacing_D(r, enabled, cFacing, permissionGranted, isLoading)
      [] variant = "E" -> effectFacing_E(r, enabled, cFacing, stream)
      [] variant = "F" -> effectFacing_F(r, enabled, cFacing, permissionGranted, isLoading)

\* requestPermission() of the current render.
RequestPermissionOf(r, org) ==
    CASE variant \in {"A1", "A3"} -> requestPermission_A(r, org)
      [] variant = "B" -> requestPermission_B(r, enabled, facingMode)
      [] variant = "C" -> requestPermission_C(r, org)
      [] variant = "D" -> requestPermission_D(r, org)
      [] variant = "E" -> requestPermission_E(r, org)
      [] variant = "F" -> requestPermission_F(r, org)

\* The continuation of an acquisition whose getUserMedia resolved with stream s.
AcquireResolved(r, s) ==
    CASE variant \in {"A1", "A3"} -> startCamera_A_resolved(r, s)
      [] variant = "B" -> startCamera_B_resolved(r, s)
      [] variant = "C" -> initializeCamera_C_resolved(r, s)
      [] variant = "D" -> startCamera_D_resolved(r, s)
      [] variant = "E" -> initializeCamera_E_resolved(r, s)
      [] variant = "F" -> startCamera_F_resolved(r, s)

\* The continuation of an acquisition whose getUserMedia rejected with an error named name.
AcquireRejected(r, name) ==
    CASE variant \in {"A1", "A3"} -> startCamera_A_rejected(r, name)
      [] variant = "B" -> startCamera_B_rejected(r, name)
      [] variant = "C" -> initializeCamera_C_rejected(r, name)
      [] variant = "D" -> startCamera_D_rejected(r, name)
      [] variant = "E" -> initializeCamera_E_rejected(r, name)
      [] variant = "F" -> startCamera_F_rejected(r, name)

\* The continuation of requestPermission whose probe resolved with stream s.
ProbeResolved(r, s) ==
    CASE variant \in {"A1", "A3"} -> requestPermission_A_resolved(r, s)
      [] variant = "C" -> requestPermission_C_resolved(r, s)
      [] variant = "D" -> requestPermission_D_resolved(r, s)
      [] variant = "E" -> requestPermission_E_resolved(r, s, enabled /\ ~unmounted, stream)
      [] variant = "F" -> requestPermission_F_resolved(r, s)

ProbeRejected(r, name) ==
    CASE variant \in {"A1", "A3"} -> requestPermission_A_rejected(r, name)
      [] variant = "C" -> requestPermission_C_rejected(r, name)
      [] variant = "D" -> requestPermission_D_rejected(r, name)
      [] variant = "E" -> requestPermission_E_rejected(r, name)
      [] variant = "F" -> requestPermission_F_rejected(r, name)

\* The wait timer's callback.
TimeoutOf(r) == IF variant = "C" THEN timeout_C(r) ELSE timeout_E(r)

----------------------------------------------------------------------------
(* WebcamCapture: what it renders and its [stream] effect.  The version of  *)
(* src/unnamed/part_004:209-341 is used with "A3"; the other hook versions  *)
(* are under src/src/components/WebcamCapture.tsx (the same render logic as *)
(* src/unnamed/part_004:1-206), where a hook that returns no                *)
(* permissionGranted gives undefined, which is never === false.             *)

\* The return statements of src/src/components/WebcamCapture.tsx:89-162.
view_W1(en, err, ld, str, pg) ==
    IF ~en THEN "disabled"
    ELSE IF err # "" /\ pg = "false" THEN "errorWithPermission"
    ELSE IF err # "" /\ ~ld THEN "error"
    ELSE IF ld \/ (str = 0 /\ pg # "false") THEN "loading"
    ELSE IF pg = "false" /\ err = "" THEN "permission"
    ELSE "video"

\* The return statements of src/unnamed/part_004:296-335.
view_W3(en, err, ld, vr) ==
    IF ~en THEN "disabled"
    ELSE IF err # "" THEN "errorWithPermission"
    ELSE IF ld \/ ~vr THEN "loading"
    ELSE "video"

ViewOf(en, err, ld, str, pg, vr) ==
    IF variant = "A3" THEN view_W3(en, err, ld, vr) ELSE view_W1(en, err, ld, str, pg)

\* What WebcamCapture renders in the current state.
View == ViewOf(enabled, error, isLoading, stream, permissionGranted, videoReady)

HookVars == <<variant, supported, enabled0, mounted, unmounted, enabled, facingMode, stream,
              error, isLoading, isReady, permissionGranted, streamRef, timeoutRef,
              currentFacingMode, cleanupStream, open, calls, timers, nCalls, unhandled>>

\* The render that follows a step and useEffect(..., [stream]): vr is
\* videoReady as that render sees it.  When the stream changed, the cleanup of
\* the previous run (if that run attached) removes the listener and sets
\* videoReady false; the body attaches the new stream if there is one and the
\* committed render holds the video element (videoRef.current).
StreamEffect(vr) ==
    /\ playPending' = playPending
    /\ IF unmounted
       THEN video' = video /\ videoReady' = videoReady
       ELSE IF stream' = stream
       THEN video' = video /\ videoReady' = vr
       ELSE IF /\ stream' # 0
               /\ ViewOf(enabled', error', isLoading', stream', permissionGranted', vr) = "video"
       THEN video' = "attached" /\ videoReady' = FALSE
       ELSE video' = "none" /\ videoReady' = (IF video # "none" THEN FALSE ELSE vr)

\* Nothing is being returned or handed to the parent.
NoOutput == [call |-> "none", returned |-> "none", onImageCapture |-> 0, onFrameCapture |-> 0]

\* clearInterval(intervalRef.current); intervalRef.current = null, under
\* if (intervalRef.current).  k holds ref (intervalRef.current), live (the
\* intervals not cleared) and cleanup (a cleanup is registered).
ClearIntervalRef(k) ==
    IF k.ref # 0
    THEN [k EXCEPT !.live = {t \in @ : t.id # k.ref}, !.ref = 0]
    ELSE k

\* The cleanup the continuous-capture effect returned, if it returned one.
captureEffect_cleanup(k) ==
    IF k.cleanup THEN [ClearIntervalRef(k) EXCEPT !.cleanup = FALSE] ELSE k

\* A body of the effect that does not look at enabled.
captureEffect_body_IgnoresEnabled(k, cc, rdy, vr, en) ==
    IF cc /\ rdy /\ vr
    THEN LET id == 1 + Cardinality({t.id : t \in k.live})
         IN  [k EXCEPT !.ref = id,
                       !.live = @ \cup {[id |-> id, isReady |-> rdy, videoReady |-> vr]},
                       !.cleanup = TRUE]
    ELSE [ClearIntervalRef(k) EXCEPT !.cleanup = FALSE]

\* The body of the continuous-capture effect in a render with these values:
\* the interval callback captures the render's captureImageData, that is
\* its isReady and videoReady.
captureEffect_body(k, cc, rdy, vr, en) ==
    IF cc /\ rdy /\ vr /\ en
    THEN LET id == 1 + Cardinality({t.id : t \in k.live})
         IN  [k EXCEPT !.ref = id,
                       !.live = @ \cup {[id |-> id, isReady |-> rdy, videoReady |-> vr]},
                       !.cleanup = TRUE]
    ELSE [ClearIntervalRef(k) EXCEPT !.cleanup = FALSE]

CurCapture == [ref |-> intervalRef, live |-> intervals, cleanup |-> captureCleanup]

CommitCapture(k) ==
    /\ intervalRef' = k.ref
    /\ intervals' = k.live
    /\ captureCleanup' = k.cleanup

\* useEffect(..., [continuousCapture, isReady, videoReady, enabled, onFrameCapture])
\* after the render that follows a step in which continuousCapture becomes
\* cc: it runs at the first commit and when a dependency changed (cleanup of
\* the previous run, then the body); unmounting runs the cleanup only.
CaptureEffectRun(cc) ==
    IF unmounted'
    THEN CommitCapture(IF unmounted THEN CurCapture ELSE captureEffect_cleanup(CurCapture))
    ELSE IF \/ ~mounted
            \/ <<cc, isReady', videoReady', enabled'>>
                   # <<continuousCapture, isReady, videoReady, enabled>>
    THEN CommitCapture(captureEffect_body(captureEffect_cleanup(CurCapture),
                                          cc, isReady', videoReady', enabled'))
    ELSE CommitCapture(CurCapture)

\* The part of every step of the hook and the video element that belongs
\* to capture: the step starts when no capture callback is running, the
\* props stay and the continuous-capture effect follows the render.
CaptureEffect ==
    /\ output = NoOutput
    /\ UNCHANGED <<continuousCapture, output>>
    /\ CaptureEffectRun(continuousCapture)


----------------------------------------------------------------------------
(* Actions. *)

Props == <<variant, supported, enabled0, mounted, unmounted, enabled, facingMode, cleanupStream>>

\* The assistant before any message; the camera specifications leave it there.
InitAssistant ==
    /\ messages = {}
    /\ utterances = <<>>
    /\ nMessages = 0

InitCamera ==
    /\ variant \in Variants
    /\ supported \in BOOLEAN
    /\ enabled \in BOOLEAN
    /\ enabled0 = enabled
    /\ mounted = FALSE
    /\ unmounted = FALSE
    /\ facingMode = "user"
    /\ stream = 0
    /\ error = ""
    /\ isLoading = FALSE
    /\ isReady = FALSE
    /\ permissionGranted = "null"
    /\ streamRef = 0
    /\ timeoutRef = 0
    /\ currentFacingMode = "user"
    /\ cleanupStream = 0
    /\ open = {}
    /\ calls = {}
    /\ timers = {}
    /\ nCalls = 0
    /\ unhandled = FALSE
    /\ videoReady = FALSE
    /\ video = "none"
    /\ playPending = FALSE

\* WebcamCapture before its first commit: no interval, nothing handed out.
InitComponent ==
    /\ intervalRef = 0
    /\ intervals = {}
    /\ captureCleanup = FALSE
    /\ output = NoOutput

\* VoiceControls after its first commit and its effect (VoiceControls.tsx:44-104):
\* the recognition object exists where the browser has one, nothing is recorded,
\* nothing has been reported to the parent and no microphone stream is open.
InitVoiceControls ==
    /\ isRecording = FALSE
    /\ speechError = (IF recognitionSupported THEN ""
                      ELSE "Speech recognition not supported in this browser")
    /\ reportedListening = <<>>
    /\ reportedSpeaking = <<>>
    /\ recognition = "idle"
    /\ listens = {}
    /\ nListens = 0
    /\ micOpen = {}
    /\ voiceUnmounted = FALSE

\* The browser of the camera, capture and assistant specifications has both APIs.
InitVoiceIdle ==
    /\ recognitionSupported = TRUE
    /\ micSupported = TRUE
    /\ InitVoiceControls

Init ==
    /\ InitCamera
    /\ hasSpeech = TRUE
    /\ InitAssistant
    /\ continuousCapture = FALSE
    /\ InitComponent
    /\ InitVoiceIdle

\* The pending cleanup of the [enabled] effect captures the stream of the render it ran in.
CleanupCaptured == IF variant \in {"C", "E"} THEN stream ELSE cleanupStream

\* The first commit: the mount effects run.
Mount ==
    /\ ~mounted
    /\ mounted' = TRUE
    /\ Commit(EffectsEnabled(Cur, enabled, "other"))
    /\ cleanupStream' = CleanupCaptured
    /\ UNCHANGED <<variant, supported, enabled0, unmounted, enabled, facingMode>>
    /\ StreamEffect(videoReady)
    /\ UNCHANGED AIVars
    /\ UNCHANGED VoiceVars
    /\ CaptureEffect

\* The parent re-renders WebcamCapture with enabled = b.
SetEnabled(b) ==
    /\ mounted
    /\ ~unmounted
    /\ b # enabled
    /\ enabled' = b
    /\ Commit(EffectsEnabled(Cur, b, IF b THEN "enable" ELSE "other"))
    /\ cleanupStream' = CleanupCaptured
    /\ UNCHANGED <<variant, supported, enabled0, mounted, unmounted, facingMode>>
    /\ StreamEffect(videoReady)
    /\ UNCHANGED AIVars
    /\ UNCHANGED VoiceVars
    /\ CaptureEffect

\* toggleCamera of WebcamCapture: the preference flips and videoReady is set false.
SetFacingMode ==
    /\ mounted
    /\ ~unmounted
    /\ facingMode' = IF facingMode = "user" THEN "environment" ELSE "user"
    /\ Commit(EffectsFacing(Cur, facingMode'))
    /\ UNCHANGED <<variant, supported, enabled0, mounted, unmounted, enabled, cleanupStream>>
    /\ StreamEffect(FALSE)
    /\ UNCHANGED AIVars
    /\ UNCHANGED VoiceVars
    /\ CaptureEffect

\* The caller invokes requestPermission().
RequestPermission ==
    /\ mounted
    /\ ~unmounted
    /\ Commit(RequestPermissionOf(Cur, IF FailedDenied THEN "rpDenied" ELSE "other"))
    /\ UNCHANGED Props
    /\ StreamEffect(videoReady)
    /\ UNCHANGED AIVars
    /\ UNCHANGED VoiceVars
    /\ CaptureEffect

\* The caller invokes startCamera() (onRetry of src/unnamed/part_004:304).
StartCamera ==
    /\ mounted
    /\ ~unmounted
    /\ variant = "A3"
    /\ Commit(startCamera_A(Cur, enabled, facingMode))
    /\ UNCHANGED Props
    /\ StreamEffect(videoReady)
    /\ UNCHANGED AIVars
    /\ UNCHANGED VoiceVars
    /\ CaptureEffect

\* The cleanups the effects of the hook registered, run at unmount: the
\* [enabled] effect of part_000 (first hook) and part_002 returns one (the
\* stopCamera of the render it last ran in); part_002 also removes its
\* 'camera-permission-granted' listener.  The other versions register none.
cleanup_C(r, cStream) == stopCamera_state(r, cStream)

cleanup_E(r, cStream) == ClearTimeoutRef(stopCamera_state(r, cStream))

CleanupsOf(r) ==
    CASE variant = "C" -> cleanup_C(r, cleanupStream)
      [] variant = "E" -> cleanup_E(r, cleanupStream)
      [] OTHER -> r

\* The component that uses the hook unmounts.
Unmount ==
    /\ mounted
    /\ ~unmounted
    /\ unmounted' = TRUE
    /\ Commit(CleanupsOf(Cur))
    /\ UNCHANGED <<variant, supported, enabled0, mounted, enabled, facingMode, cleanupStream>>
    /\ video' = "none"
    /\ UNCHANGED <<videoReady, playPending>>
    /\ UNCHANGED AIVars
    /\ UNCHANGED VoiceVars
    /\ CaptureEffect

\* getUserMedia of an acquisition resolves with a new stream.
AcquireResolves(c) ==
    /\ c \in calls
    /\ c.kind = "acquire"
    /\ Commit(AcquireResolved(Deliver(Cur, c), c.id))
    /\ UNCHANGED Props
    /\ StreamEffect(videoReady)
    /\ UNCHANGED AIVars
    /\ UNCHANGED VoiceVars
    /\ CaptureEffect

\* getUserMedia of an acquisition rejects.
AcquireRejects(c, name) ==
    /\ c \in calls
    /\ c.kind = "acquire"
    /\ Commit(AcquireRejected(Settle(Cur, c), name))
    /\ UNCHANGED Props
    /\ StreamEffect(videoReady)
    /\ UNCHANGED AIVars
    /\ UNCHANGED VoiceVars
    /\ CaptureEffect

\* getUserMedia of requestPermission resolves with a temporary stream.
ProbeResolves(c) ==
    /\ c \in calls
    /\ c.kind = "probe"
    /\ Commit(ProbeResolved(Deliver(Cur, c), c.id))
    /\ UNCHANGED Props
    /\ StreamEffect(videoReady)
    /\ UNCHANGED AIVars
    /\ UNCHANGED VoiceVars
    /\ CaptureEffect

\* getUserMedia of requestPermission rejects.
ProbeRejects(c, name) ==
    /\ c \in calls
    /\ c.kind = "probe"
    /\ Commit(ProbeRejected(Settle(Cur, c), name))
    /\ UNCHANGED Props
    /\ StreamEffect(videoReady)
    /\ UNCHANGED AIVars
    /\ UNCHANGED VoiceVars
    /\ CaptureEffect

\* navigator.permissions.query settles.
QueryResolves(c, state) ==
    /\ c \in calls
    /\ c.kind = "query"
    /\ Commit(checkPermission_F_resolved(Settle(Cur, c), state, c.cFacing, c.cPG))
    /\ UNCHANGED Props
    /\ StreamEffect(videoReady)
    /\ UNCHANGED AIVars
    /\ UNCHANGED VoiceVars
    /\ CaptureEffect

\* A wait timer fires.
TimerFires(t) ==
    /\ t \in timers
    /\ Commit(TimeoutOf([Cur EXCEPT !.timers = @ \ {t}]))
    /\ UNCHANGED Props
    /\ StreamEffect(videoReady)
    /\ UNCHANGED AIVars
    /\ UNCHANGED VoiceVars
    /\ CaptureEffect

\* The video element fires loadeddata: handleLoadedData calls video.play().
LoadedData ==
    /\ video = "attached"
    /\ video' = "fired"
    /\ playPending' = TRUE
    /\ UNCHANGED videoReady
    /\ UNCHANGED HookVars
    /\ UNCHANGED AIVars
    /\ UNCHANGED VoiceVars
    /\ CaptureEffect

\* video.play() resolves: setVideoReady(true).
PlayResolves ==
    /\ playPending
    /\ playPending' = FALSE
    /\ videoReady' = (IF unmounted THEN videoReady ELSE TRUE)
    /\ UNCHANGED video
    /\ UNCHANGED HookVars
    /\ UNCHANGED AIVars
    /\ UNCHANGED VoiceVars
    /\ CaptureEffect

Next ==
    \/ Mount
    \/ \E b \in BOOLEAN : SetEnabled(b)
    \/ SetFacingMode
    \/ RequestPermission
    \/ StartCamera
    \/ Unmount
    \/ \E c \in calls : AcquireResolves(c)
    \/ \E c \in calls, name \in RejectionValues : AcquireRejects(c, name)
    \/ \E c \in calls : ProbeResolves(c)
    \/ \E c \in calls, name \in RejectionValues : ProbeRejects(c, name)
    \/ \E c \in calls, state \in PermissionStates : QueryResolves(c, state)
    \/ \E t \in timers : TimerFires(t)

Spec == Init /\ [][Next]_vars

\* The session together with the video element of WebcamCapture, whose events
\* (loadeddata, play() resolving) happen whenever they can.
NextView == Next \/ LoadedData \/ PlayResolves

SpecView ==
    Init /\ [][NextView]_vars /\ WF_vars(LoadedData) /\ WF_vars(PlayResolves)

----------------------------------------------------------------------------
(* Capture: captureImage of the imperative handle and the continuous frame *)
(* capture of src/unnamed/part_004:1-206.  A call of captureImage or of an *)
(* interval callback is one step that leaves in output what it returned    *)
(* and handed to the parent; Returns ends it.                              *)

\* The component of src/unnamed/part_004:1-206 reads permissionGranted from
\* the hook: it is checked with the hooks of src/unnamed/part_001 and
\* src/unnamed/part_003, which return one.  src/src/components/WebcamCapture.tsx
\* and the component of src/unnamed/part_004:209-341 (both with
\* src/src/hooks/useCamera.ts) have no continuousCapture prop.
ContinuousVariants == {"B", "F"}

CaptureVariants == {"A1", "A3"} \cup ContinuousVariants

\* videoRef.current and canvasRef.current: the elements exist while the
\* component is mounted and its committed render is the video view.
ElementsPresent == ~unmounted /\ View = "video"

\* captureImageData with the guard reduced to the two elements.
captureImageData_ElementsOnly(elements, rdy, vr, context) ==
    IF ~elements THEN "null"
    ELSE IF ~context THEN "null"
    ELSE "data"

\* captureImageData (src/unnamed/part_004:40-58): null or a data: URL.
captureImageData(elements, rdy, vr, context) ==
    IF ~elements \/ ~rdy \/ ~vr THEN "null"
    ELSE IF ~context THEN "null"
    ELSE "data"

\* captureImage of src/src/components/WebcamCapture.tsx:34-54 and of
\* src/unnamed/part_004:241-261.
captureImage_W1(elements, rdy, vr, context) ==
    IF ~elements \/ ~rdy \/ ~vr
    THEN [call |-> "captureImage", returned |-> "null", onImageCapture |-> 0, onFrameCapture |-> 0]
    ELSE IF ~context
    THEN [call |-> "captureImage", returned |-> "null", onImageCapture |-> 0, onFrameCapture |-> 0]
    ELSE [call |-> "captureImage", returned |-> "data", onImageCapture |-> 1, onFrameCapture |-> 0]

\* captureImage of src/unnamed/part_004:61-68.
captureImage_W2(elements, rdy, vr, context) ==
    LET imageData == captureImageData(elements, rdy, vr, context)
    IN  [call |-> "captureImage", returned |-> imageData,
         onImageCapture |-> IF imageData # "null" THEN 1 ELSE 0,
         onFrameCapture |-> 0]

\* The callback of setInterval (src/unnamed/part_004:76-82).
intervalCallback(elements, rdy, vr, context) ==
    LET frameData == captureImageData(elements, rdy, vr, context)
    IN  [call |-> "interval", returned |-> "none", onImageCapture |-> 0,
         onFrameCapture |-> IF frameData # "null" THEN 1 ELSE 0]

CaptureCall(out) ==
    /\ output = NoOutput
    /\ output' = out
    /\ UNCHANGED <<continuousCapture, intervalRef, intervals, captureCleanup>>
    /\ UNCHANGED HookVars
    /\ UNCHANGED <<videoReady, video, playPending>>
    /\ UNCHANGED AIVars
    /\ UNCHANGED VoiceVars

\* The parent calls captureImage() of the handle; context tells whether
\* canvas.getContext('2d') gives a context.
CaptureImage(context) ==
    /\ mounted
    /\ ~unmounted
    /\ CaptureCall(IF variant \in ContinuousVariants
                   THEN captureImage_W2(ElementsPresent, isReady, videoReady, context)
                   ELSE captureImage_W1(ElementsPresent, isReady, videoReady, context))

\* A capture interval fires (every 2000 ms).
IntervalTick(t, context) ==
    /\ t \in intervals
    /\ CaptureCall(intervalCallback(ElementsPresent, t.isReady, t.videoReady, context))

\* The call returns.
Returns ==
    /\ output # NoOutput
    /\ output' = NoOutput
    /\ UNCHANGED <<continuousCapture, intervalRef, intervals, captureCleanup>>
    /\ UNCHANGED HookVars
    /\ UNCHANGED <<videoReady, video, playPending>>
    /\ UNCHANGED AIVars
    /\ UNCHANGED VoiceVars

\* The parent re-renders WebcamCapture with continuousCapture = b.
SetContinuousCapture(b) ==
    /\ mounted
    /\ ~unmounted
    /\ variant \in ContinuousVariants
    /\ output = NoOutput
    /\ b # continuousCapture
    /\ continuousCapture' = b
    /\ UNCHANGED output
    /\ UNCHANGED HookVars
    /\ UNCHANGED <<videoReady, video, playPending>>
    /\ UNCHANGED AIVars
    /\ UNCHANGED VoiceVars
    /\ CaptureEffectRun(b)

InitCapture ==
    /\ InitCamera
    /\ variant \in CaptureVariants
    /\ hasSpeech = TRUE
    /\ InitAssistant
    /\ continuousCapture \in (IF variant \in ContinuousVariants THEN BOOLEAN ELSE {FALSE})
    /\ InitComponent
    /\ InitVoiceIdle

\* The steps of the hook (none of these versions sets a wait timer), of the
\* video element and of capture.
NextCapture ==
    \/ Mount
    \/ \E b \in BOOLEAN : SetEnabled(b)
    \/ SetFacingMode
    \/ RequestPermission
    \/ StartCamera
    \/ Unmount
    \/ \E c \in calls : AcquireResolves(c)
    \/ \E c \in calls, name \in RejectionValues : AcquireRejects(c, name)
    \/ \E c \in calls : ProbeResolves(c)
    \/ \E c \in calls, name \in RejectionValues : ProbeRejects(c, name)
    \/ \E c \in calls, state \in PermissionStates : QueryResolves(c, state)
    \/ LoadedData
    \/ PlayResolves
    \/ \E b \in BOOLEAN : SetContinuousCapture(b)
    \/ \E context \in BOOLEAN : CaptureImage(context)
    \/ \E t \in intervals, context \in BOOLEAN : IntervalTick(t, context)
    \/ Returns

SpecCapture == InitCapture /\ [][NextCapture]_vars

----------------------------------------------------------------------------
(* The assistant: class AIProcessor (src/src/components/AIProcessor.tsx)   *)
(* with the generative-language HTTP API and window.speechSynthesis.  A    *)
(* text is a sequence of one-character strings.  One action is one task:   *)
(* a call of processMessage up to its first await, or the completion of    *)
(* the promise it awaits and the code that follows up to the next await.   *)

\* Bound on the number of processMessage calls.
MaxMessages == 1

UpperCaseLetters ==
    <<"A", "B", "C", "D", "E", "F", "G", "H", "I", "J", "K", "L", "M", "N", "O", "P", "Q", "R", "S", "T", "U", "V", "W", "X", "Y", "Z">>

LowerCaseLetters ==
    <<"a", "b", "c", "d", "e", "f", "g", "h", "i", "j", "k", "l", "m", "n", "o", "p", "q", "r", "s", "t", "u", "v", "w", "x", "y", "z">>

\* String.prototype.toLowerCase.
toLowerCase(text) ==
    [i \in DOMAIN text |->
        IF \E k \in DOMAIN UpperCaseLetters : UpperCaseLetters[k] = text[i]
        THEN LowerCaseLetters[CHOOSE k \in DOMAIN UpperCaseLetters : UpperCaseLetters[k] = text[i]]
        ELSE text[i]]

\* String.prototype.includes.
includes(text, keyword) ==
    \E i \in 1..(Len(text) - Len(keyword) + 1) :
        SubSeq(text, i, i + Len(keyword) - 1) = keyword

visionKeywords ==
    { <<"s", "e", "e">>,
      <<"l", "o", "o", "k">>,
      <<"w", "h", "a", "t">>,
      <<"h", "o", "w">>,
      <<"d", "e", "s", "c", "r", "i", "b", "e">>,
      <<"c", "o", "l", "o", "r">>,
      <<"w", "e", "a", "r", "i", "n", "g">>,
      <<"h", "o", "l", "d", "i", "n", "g">>,
      <<"p", "i", "c", "t", "u", "r", "e">>,
      <<"i", "m", "a", "g", "e">>,
      <<"s", "h", "o", "w">>,
      <<"v", "i", "s", "i", "b", "l", "e">>,
      <<"a", "p", "p", "e", "a", "r", "a", "n", "c", "e">>,
      <<"b", "e", "h", "i", "n", "d">>,
      <<"f", "r", "o", "n", "t">>,
      <<"l", "e", "f", "t">>,
      <<"r", "i", "g", "h", "t">>,
      <<"a", "b", "o", "v", "e">>,
      <<"b", "e", "l", "o", "w">>,
      <<"a", "r", "o", "u", "n", "d">>,
      <<"g", "e", "s", "t", "u", "r", "e">>,
      <<"p", "o", "s", "t", "u", "r", "e">>,
      <<"e", "x", "p", "r", "e", "s", "s", "i", "o", "n">>,
      <<"f", "a", "c", "e">>,
      <<"h", "a", "n", "d">>,
      <<"o", "b", "j", "e", "c", "t">>,
      <<"r", "o", "o", "m">>,
      <<"b", "a", "c", "k", "g", "r", "o", "u", "n", "d">>,
      <<"d", "o", "i", "n", "g">>,
      <<"r", "e", "a", "d", "i", "n", "g">>,
      <<"w", "a", "t", "c", "h", "i", "n", "g">>,
      <<"i", "d", "e", "n", "t", "i", "f", "y">>,
      <<"r", "e", "c", "o", "g", "n", "i", "z", "e">>,
      <<"a", "n", "a", "l", "y", "z", "e">>,
      <<"o", "b", "s", "e", "r", "v", "e">> }

needsVision(text) ==
    LET lowerText == toLowerCase(text)
    IN  \E keyword \in visionKeywords : includes(lowerText, keyword)

\* The messages a user sends: "SHOW", "somewhat", "hello".
UserMessages ==
    { <<"S", "H", "O", "W">>,
      <<"s", "o", "m", "e", "w", "h", "a", "t">>,
      <<"h", "e", "l", "l", "o">> }

\* The imageData argument: null or the data: URL of a captured frame
\* (canvas.toDataURL in captureImage).
ImageDataValues == {"null", "data:camera"}

\* An uploaded file as FileUpload.handleFileSelect builds it (an image gets
\* an object URL); the parameter is any[], so an image without url is an
\* input too.
PdfFile == [type |-> "pdf", url |-> "undefined"]

ImageFile(u) == [type |-> "image", url |-> u]

\* The uploadedFiles argument: undefined or an array.
FilesArray(fs) == [defined |-> TRUE, files |-> fs]

UploadedFilesValues ==
    { [defined |-> FALSE, files |-> <<>>],
      FilesArray(<<>>),
      FilesArray(<<PdfFile>>),
      FilesArray(<<ImageFile("blob:file1")>>),
      FilesArray(<<PdfFile, ImageFile("blob:file1")>>),
      FilesArray(<<ImageFile("blob:file1"), ImageFile("blob:file2")>>),
      FilesArray(<<ImageFile("undefined"), ImageFile("blob:file1")>>) }

\* data.candidates?.[0]?.content?.parts?.[0]?.text of a response body:
\* undefined when a link of the chain is missing, else the text.
ResponseTexts == {"undefined", "", "Hello, I am NEXUS."}

Apology ==
    "I apologize, but I'm having trouble processing your request right now. Please try again in a moment."

\* The text after || in each path.
Fallback(path) ==
    CASE path = "files" -> "I couldn't analyze the uploaded files properly."
      [] path = "text" -> "I couldn't generate a response."
      [] path = "vision" -> "I couldn't analyze the image."

\* JavaScript truthiness of a string-or-null value.
Truthy(v) == v \notin {"null", "undefined", ""}

\* imageData.startsWith('blob:').
startsWithBlob(url) == url \in {"blob:file1", "blob:file2"}

\* A processMessage call: its arguments, where it waits (pc: "blob" the
\* fetch and read of a blob: URL, "fetch" the API request, "json" the body,
\* "done" returned), the path it entered, the API requests it issued, the
\* text of the body it obtained, the texts it handed to
\* speechSynthesis.speak, the error its catch block logged and the value
\* its promise resolved to.
NewMessage(id, userMessage, imageData, uploadedFiles) ==
    [id |-> id, userMessage |-> userMessage, imageData |-> imageData,
     uploadedFiles |-> uploadedFiles, pc |-> "start", path |-> "none",
     image |-> "none", requests |-> <<>>, data |-> "pending",
     spoken |-> <<>>, caught |-> "none", result |-> "pending"]

\* fetch(url, {method: 'POST', ...}) of a path: the request is issued and awaited.
Request(r, kind) ==
    [r EXCEPT !.m.pc = "fetch",
              !.m.requests = Append(@, [kind |-> kind, image |-> r.m.image])]

\* A catch block that logs the error and throws it again: the promise rejects.
Caught_Rethrows(r, thrown) ==
    [r EXCEPT !.m.pc = "done", !.m.caught = thrown, !.m.result = "rejected"]

\* The catch block of processMessage: the error is logged, the apology returned.
Caught(r, thrown) ==
    [r EXCEPT !.m.pc = "done", !.m.caught = thrown, !.m.result = Apology]

processWithFiles(r) == Request([r EXCEPT !.m.path = "files"], "files")

processTextOnly(r) == Request([r EXCEPT !.m.path = "text"], "text")

\* processWithVision up to its first await: startsWith on undefined throws.
processWithVision(r, imageData) ==
    LET r1 == [r EXCEPT !.m.path = "vision", !.m.image = imageData]
    IN  IF imageData = "undefined" THEN Caught(r1, "TypeError: startsWith")
        ELSE IF startsWithBlob(imageData) THEN [r1 EXCEPT !.m.pc = "blob"]
        ELSE Request(r1, "vision")

\* uploadedFiles?.find(f => f.type === 'image')?.url
FirstImageUrl(uploadedFiles) ==
    LET images == {i \in DOMAIN uploadedFiles.files : uploadedFiles.files[i].type = "image"}
    IN  IF images = {} THEN "undefined"
        ELSE uploadedFiles.files[CHOOSE i \in images : \A j \in images : i <= j].url

\* A routing that looks at the uploaded files before the uploaded image.
processMessage_FilesFirst(r) ==
    LET userMessage == r.m.userMessage
        imageData == r.m.imageData
        uploadedFiles == r.m.uploadedFiles
        useVision == needsVision(userMessage) /\ Truthy(imageData)
        hasUploadedImages ==
            \E i \in DOMAIN uploadedFiles.files : uploadedFiles.files[i].type = "image"
    IN  IF useVision /\ Truthy(imageData) THEN processWithVision(r, imageData)
        ELSE IF uploadedFiles.defined /\ Len(uploadedFiles.files) > 0
        THEN processWithFiles(r)
        ELSE IF hasUploadedImages /\ needsVision(userMessage)
        THEN processWithVision(r, FirstImageUrl(uploadedFiles))
        ELSE processTextOnly(r)

\* processMessage up to its first await.
processMessage(r) ==
    LET userMessage == r.m.userMessage
        imageData == r.m.imageData
        uploadedFiles == r.m.uploadedFiles
        useVision == needsVision(userMessage) /\ Truthy(imageData)
        hasUploadedImages ==
            \E i \in DOMAIN uploadedFiles.files : uploadedFiles.files[i].type = "image"
    IN  IF useVision /\ Truthy(imageData) THEN processWithVision(r, imageData)
        ELSE IF hasUploadedImages /\ needsVision(userMessage)
        THEN processWithVision(r, FirstImageUrl(uploadedFiles))
        ELSE IF uploadedFiles.defined /\ Len(uploadedFiles.files) > 0
        THEN processWithFiles(r)
        ELSE processTextOnly(r)

\* speakText: nothing without window.speechSynthesis; else cancel() empties
\* the queue and speak() appends the utterance.
speakText(r, text) ==
    IF hasSpeech
    THEN [r EXCEPT !.utterances = <<text>>, !.m.spoken = Append(@, text)]
    ELSE r

\* A continuation that hands the raw text of the body to speakText.
Answered_SpeaksRawText(r, text) ==
    LET aiResponse == IF Truthy(text) THEN text ELSE Fallback(r.m.path)
    IN  [speakText([r EXCEPT !.m.data = text], text)
            EXCEPT !.m.pc = "done", !.m.result = aiResponse]

\* After response.json(): the text or the fallback is spoken and returned.
Answered(r, text) ==
    LET aiResponse == IF Truthy(text) THEN text ELSE Fallback(r.m.path)
    IN  [speakText([r EXCEPT !.m.data = text], aiResponse)
            EXCEPT !.m.pc = "done", !.m.result = aiResponse]

CurAI(m) == [m |-> m, utterances |-> utterances]

CommitAI(m, r) ==
    /\ messages' = (messages \ {m}) \cup {r.m}
    /\ utterances' = r.utterances
    /\ UNCHANGED hasSpeech
    /\ UNCHANGED HookVars
    /\ UNCHANGED <<videoReady, video, playPending>>
    /\ UNCHANGED CaptureVars
    /\ UNCHANGED VoiceVars

\* A caller invokes processMessage(userMessage, imageData, uploadedFiles).
ProcessMessage(userMessage, imageData, uploadedFiles) ==
    /\ nMessages < MaxMessages
    /\ nMessages' = nMessages + 1
    /\ LET m == NewMessage(nMessages + 1, userMessage, imageData, uploadedFiles)
       IN  CommitAI(m, processMessage(CurAI(m)))

\* fetch(imageData), response.blob() and the FileReader deliver the base64
\* data of a blob: URL; the API request follows.
BlobResolves(m) ==
    /\ m \in messages
    /\ m.pc = "blob"
    /\ CommitAI(m, Request(CurAI(m), "vision"))
    /\ UNCHANGED nMessages

\* fetch(imageData) or response.blob() rejects.
BlobRejects(m) ==
    /\ m \in messages
    /\ m.pc = "blob"
    /\ CommitAI(m, Caught(CurAI(m), "blob: fetch failed"))
    /\ UNCHANGED nMessages

\* The API request resolves: with a status that is not ok the path throws.
FetchResolves(m, ok) ==
    /\ m \in messages
    /\ m.pc = "fetch"
    /\ CommitAI(m, IF ok THEN [CurAI(m) EXCEPT !.m.pc = "json"] ELSE Caught(CurAI(m), "Error: API request failed"))
    /\ UNCHANGED nMessages

\* The API request rejects (network error).
FetchRejects(m) ==
    /\ m \in messages
    /\ m.pc = "fetch"
    /\ CommitAI(m, Caught(CurAI(m), "TypeError: Failed to fetch"))
    /\ UNCHANGED nMessages

\* response.json() resolves with a body whose text is text.
JsonResolves(m, text) ==
    /\ m \in messages
    /\ m.pc = "json"
    /\ CommitAI(m, Answered(CurAI(m), text))
    /\ UNCHANGED nMessages

\* response.json() rejects (the body is not JSON).
JsonRejects(m) ==
    /\ m \in messages
    /\ m.pc = "json"
    /\ CommitAI(m, Caught(CurAI(m), "SyntaxError: JSON"))
    /\ UNCHANGED nMessages

\* The speech engine finishes (or drops) the utterance at the head of its queue.
UtteranceEnds ==
    /\ utterances # <<>>
    /\ utterances' = Tail(utterances)
    /\ UNCHANGED <<hasSpeech, messages, nMessages>>
    /\ UNCHANGED HookVars
    /\ UNCHANGED <<videoReady, video, playPending>>
    /\ UNCHANGED CaptureVars
    /\ UNCHANGED VoiceVars

\* The assistant alone: the camera stays as constructed.
InitAI ==
    /\ InitCamera
    /\ variant = "A1"
    /\ supported
    /\ ~enabled
    /\ hasSpeech \in BOOLEAN
    /\ InitAssistant
    /\ continuousCapture = FALSE
    /\ InitComponent
    /\ InitVoiceIdle

NextAI ==
    \/ \E userMessage \in UserMessages, imageData \in ImageDataValues,
          uploadedFiles \in UploadedFilesValues :
              ProcessMessage(userMessage, imageData, uploadedFiles)
    \/ \E m \in messages : BlobResolves(m)
    \/ \E m \in messages : BlobRejects(m)
    \/ \E m \in messages, ok \in BOOLEAN : FetchResolves(m, ok)
    \/ \E m \in messages : FetchRejects(m)
    \/ \E m \in messages, text \in ResponseTexts : JsonResolves(m, text)
    \/ \E m \in messages : JsonRejects(m)
    \/ UtteranceEnds

SpecAI == InitAI /\ [][NextAI]_vars

----------------------------------------------------------------------------
(* Claims C1-C10. *)

\* C1: at most one camera stream obtained by the session is open (tracks not
\* stopped) at any time, whatever the sequence of enable, disable, facing-mode
\* change, requestPermission and device-open completions.
C1_AtMostOneStreamOpen == Cardinality(open) <= 1

\* C2: when an acquisition's device-open call resolves while enabled is false
\* (the session was disabled while it was in flight), the returned stream is
\* released at once and the session is not Ready: isReady false, stream null.
C2_LateSuccessAfterDisableReleased ==
    [][\A c \in calls :
          (AcquireResolves(c) /\ ~unmounted /\ ~enabled)
              => (c.id \notin open' /\ ~isReady' /\ stream' = 0)]_vars

\* C3: when an acquisition's device-open call resolves after the preference
\* changed from the one it was issued with, its stream is released at once and
\* is not installed as the session's stream.
C3_LateSuccessAfterPreferenceChangeDiscarded ==
    [][\A c \in calls :
          (AcquireResolves(c) /\ ~unmounted /\ c.fm # facingMode)
              => (c.id \notin open' /\ stream' # c.id)]_vars

\* An acquisition attempt is superseded: the session is disabled, or a newer
\* attempt is in flight, or a newer attempt has made the session Ready.
Superseded(c) ==
    \/ ~enabled
    \/ \E d \in calls : d.kind = "acquire" /\ d.id > c.id
    \/ isReady /\ stream > c.id

\* C4: the failure of a superseded acquisition attempt changes none of isReady,
\* isLoading, error and permissionGranted.
C4_SupersededFailureDiscarded ==
    [][\A c \in calls, name \in ErrorNames :
          (AcquireRejects(c, name) /\ ~unmounted /\ Superseded(c))
              => UNCHANGED <<isReady, isLoading, error, permissionGranted>>]_vars

\* The session is TimedOut for the acquisition in flight c: the wait timer of c,
\* the latest attempt, has fired and its message stands.
TimedOutFor(c) ==
    /\ c.kind = "acquire"
    /\ c.timer # 0
    /\ c.timer = timeoutRef
    /\ c.timer \notin timers
    /\ error \in TakingTooLong
    /\ ~isLoading
    /\ ~isReady

\* C5: in the versions with a wait timer, once the timer has fired for an
\* acquisition (TimedOut) and the session is still enabled with the same
\* preference, the success of that same device-open call makes the session
\* Ready with the returned stream installed and open.
C5_LateSuccessAfterTimeoutInstalled ==
    [][\A c \in calls :
          (AcquireResolves(c) /\ ~unmounted /\ TimedOutFor(c) /\ enabled /\ c.fm = facingMode)
              => (isReady' /\ stream' = c.id /\ c.id \in open')]_vars

\* C5 witness: a Ready session with an open stream installed over the timeout message.
C5_Witness ==
    /\ variant \in {"C", "E"}
    /\ ~unmounted
    /\ enabled
    /\ isReady
    /\ stream # 0
    /\ stream \in open
    /\ error \in TakingTooLong

\* C6: when the wait timer of an acquisition in flight fires while the session
\* is enabled, the session stops reporting loading and reports a message
\* containing "taking too long"; no call in flight is cancelled and no stream is
\* released.
C6_TimerFiresTimedOut ==
    [][\A t \in timers :
          (TimerFires(t) /\ ~unmounted /\ enabled /\ \E c \in calls : c.kind = "acquire")
              => (/\ ~isLoading'
                  /\ error' \in TakingTooLong
                  /\ calls' = calls
                  /\ open' = open)]_vars

\* C6 witness: TimedOut with the device-open call still in flight.
C6_Witness == ~unmounted /\ enabled /\ \E c \in calls : TimedOutFor(c)

\* C7: requestPermission() called in Failed(PermissionDenied) issues exactly
\* one device-open call: one when it is called and none when its continuation runs.
C7_RequestPermissionIssuesExactlyOne ==
    [][/\ (RequestPermission /\ FailedDenied /\ supported) => nCalls' = nCalls + 1
       /\ \A c \in calls :
             (ProbeResolves(c) /\ ~unmounted /\ c.org = "rpDenied") => nCalls' = nCalls]_vars

\* C8: requestPermission() called while enabled and in Failed(PermissionDenied),
\* with the device now granting, re-issues acquisition (at the latest when its
\* probe resolves) and the acquisition's success makes the session Ready with
\* the stream installed, whatever enabled was at the first render.
C8_RequestPermissionReacquires ==
    [][/\ (RequestPermission /\ FailedDenied /\ supported) => nCalls' = nCalls + 1
       /\ \A c \in calls :
             (ProbeResolves(c) /\ ~unmounted /\ c.org = "rpDenied" /\ enabled)
                 => \E d \in calls' : d.kind = "acquire" /\ d.id = nCalls + 1
       /\ \A c \in calls :
             (AcquireResolves(c) /\ ~unmounted /\ enabled) => (isReady' /\ stream' = c.id)]_vars

\* The failure reason the mapping table of the spec gives an underlying error.
ExpectedReason(name) ==
    CASE name = "NotAllowedError" -> "PermissionDenied"
      [] name = "NotFoundError" -> "DeviceNotFound"
      [] name = "NotReadableError" -> "DeviceBusy"
      [] OTHER -> "Unknown"

\* C9: a failed acquisition leaves the failure reason the mapping table gives
\* its underlying error: PermissionDenied, DeviceNotFound, DeviceBusy, else Unknown.
C9_ErrorMappingTable ==
    [][\A c \in calls, name \in ErrorNames :
          (AcquireRejects(c, name) /\ ~unmounted)
              => ReasonOf(error') = ExpectedReason(name)]_vars

\* C10: every transition of enabled from false to true issues a device-open
\* call, at once or when the permission query it started reports anything but
\* a denial.
C10_EnableTriggersAcquisition ==
    [][/\ (SetEnabled(TRUE) /\ supported)
              => \E d \in calls' \ calls : d.kind \in {"acquire", "query"}
       /\ \A c \in calls, state \in {"granted", "prompt"} :
             (QueryResolves(c, state) /\ ~unmounted /\ c.org = "enable" /\ enabled)
                 => \E d \in calls' \ calls : d.kind = "acquire"]_vars

----------------------------------------------------------------------------
(* Claims C11-C20. *)

\* C11: every transition of enabled from true to false releases the installed
\* stream and resets the session to Disabled in the same step: the installed
\* stream's tracks are stopped, stream is null, isReady and isLoading are false.
C11_DisableReleasesAndResets ==
    [][SetEnabled(FALSE)
          => (/\ stream # 0 => stream \notin open'
              /\ stream' = 0
              /\ ~isReady'
              /\ ~isLoading')]_vars

\* The session is Ready: enabled, reporting ready and not loading, with its
\* installed stream open and no device call in flight.
SessionReady ==
    /\ enabled
    /\ isReady
    /\ ~isLoading
    /\ stream # 0
    /\ stream \in open
    /\ calls = {}

\* C12: when facingMode changes while the session is Ready, the current stream
\* is torn down and exactly one acquisition is issued, with the new preference
\* in its constraints.
C12_PreferenceChangeInReadyReacquires ==
    [][(SetFacingMode /\ SessionReady)
          => (/\ stream \notin open'
              /\ nCalls' = nCalls + 1
              /\ \E d \in calls' \ calls : d.kind = "acquire" /\ d.fm = facingMode')]_vars

\* C13: when facingMode changes while the session is not Ready, no device call
\* is issued and the session state (flags, stream, error, permission, timers)
\* does not change.
C13_PreferenceChangeNotReadyNoOp ==
    [][(SetFacingMode /\ ~isReady)
          => UNCHANGED <<stream, error, isLoading, isReady, permissionGranted,
                         streamRef, open, calls, timers, nCalls>>]_vars

\* C14: in every step that issues an acquisition's device-open call, the stream
\* installed before the step is not open after it.
C14_ReleaseBeforeOpen ==
    [][(~unmounted /\ \E d \in calls' \ calls : d.kind = "acquire")
          => (stream # 0 => stream \notin open')]_vars

\* C15: stream is non-null only if isReady is true.
C15_StreamOnlyInReady == stream # 0 => isReady

\* The acquisition in flight c is the current attempt of a live session: the
\* session is enabled and no later attempt exists.
CurrentAttempt(c) ==
    /\ ~unmounted
    /\ c.kind = "acquire"
    /\ ~Superseded(c)

\* C16: when the component that uses the hook unmounts, the session releases
\* every stream it obtained: none is open after the unmount.
C16_UnmountReleasesStream == [][Unmount => open' = {}]_vars

\* C17: when the device-open call of the current acquisition attempt fails,
\* whatever value it rejects with, the session is left Failed with a message:
\* isLoading false, isReady false and error non-empty.
C17_FailureLeavesFailedWithMessage ==
    [][\A c \in calls, name \in RejectionValues :
          (AcquireRejects(c, name) /\ CurrentAttempt(c))
              => (~isLoading' /\ ~isReady' /\ error' # "")]_vars

\* C18: no promise returned by startCamera/initializeCamera, requestPermission
\* or checkPermission ever rejects, whether the device call rejects, throws or
\* is absent; the failure is hook state only.
C18_NoPromiseRejects == ~unhandled

\* C18 witness: a device call has failed, its catch block has set the message,
\* and no promise has rejected.
C18_Witness ==
    /\ ~unhandled
    /\ ~isLoading
    /\ ~isReady
    /\ ReasonOf(error) \notin {"None", "Timeout"}

\* The session is Failed or TimedOut: enabled, neither loading nor ready, with a message.
FailedOrTimedOut ==
    /\ ~unmounted
    /\ enabled
    /\ ~isLoading
    /\ ~isReady
    /\ error # ""

C20_ReadyHasNoPendingTimer == (~unmounted /\ isReady) => timers = {}

\* C20 witness: Ready in a version with a wait timer, the timer of the attempt
\* cancelled before it fired.
C20_Witness ==
    /\ variant \in {"C", "E"}
    /\ ~unmounted
    /\ isReady
    /\ stream # 0
    /\ timeoutRef # 0
    /\ timeoutRef \notin timers
    /\ error = ""

----------------------------------------------------------------------------
(* Claims C21-C30. *)

\* C21: every acquisition device-open call issued in a live session carries
\* the facingMode that is current when it is issued.
C21_AcquisitionCarriesCurrentPreference ==
    [][~unmounted
          => \A d \in calls' \ calls : d.kind = "acquire" => d.fm = facingMode']_vars

\* C22: isLoading and isReady are never both true.
C22_LoadingAndReadyExclusive == ~(isLoading /\ isReady)

\* C23: whenever a live session reports isReady with a non-null stream, that
\* stream's tracks have not been stopped.
C23_InstalledStreamIsOpen == (~unmounted /\ isReady /\ stream # 0) => stream \in open

\* C24: while the device-open call of the current acquisition attempt is in
\* flight and its wait timer (if it has one) has not fired, isLoading is true.
C24_LoadingWhileInFlight ==
    \A c \in calls :
        (CurrentAttempt(c) /\ (c.timer = 0 \/ c.timer \in timers)) => isLoading

\* C28: isReady true implies the error string is empty.
C28_ReadyHasNoError == (~unmounted /\ isReady) => error = ""

\* C30: when the probe of requestPermission() settles, its temporary stream is
\* not open after the step (it is stopped before the acquisition the step may
\* start) and is not installed as the session's stream.
C30_ProbeStreamReleased ==
    [][\A c \in calls :
          (c.kind = "probe" /\ c \notin calls')
              => (c.id \notin open' /\ stream' # c.id /\ streamRef' # c.id)]_vars

\* C30 witness: in the version where only requestPermission() starts an
\* acquisition, an acquisition is in flight (a probe has resolved and its
\* continuation has issued it) and no stream is open or installed.
C30_Witness ==
    /\ variant = "A1"
    /\ ~unmounted
    /\ \E d \in calls : d.kind = "acquire"
    /\ open = {}
    /\ stream = 0

\* The session is Ready with a stream, in a mounted component.
ReadyWithStream == ~unmounted /\ enabled /\ isReady /\ stream # 0

\* WebcamCapture shows the ready view: the video element with videoReady true.
ReadyView == View = "video" /\ videoReady

\* C25: with the video element firing loadeddata and play() resolving whenever
\* they can, a session that is Ready with a stream leads to the ready view
\* (the video element rendered, videoReady true), unless the session leaves Ready.
C25_ReadyLeadsToReadyView == ReadyWithStream ~> (ReadyView \/ ~ReadyWithStream)

\* C29: whenever the camera is enabled in a mounted component, no device call
\* or permission query is in flight and no stream is installed, WebcamCapture
\* renders a view with a retry or permission affordance, not the loading view.
C29_NothingPendingShowsAffordance ==
    (mounted /\ ~unmounted /\ enabled /\ calls = {} /\ stream = 0)
        => View \in {"error", "errorWithPermission", "permission"}


\* The call the routing priority asks for: vision with the camera image when
\* the text holds a vision keyword and camera image data is present;
\* otherwise vision with the first uploaded image when the text holds a
\* vision keyword and an uploaded image exists; otherwise the file-context
\* text call when any file is uploaded; otherwise the text-only call.
WantedCall(userMessage, imageData, uploadedFiles) ==
    LET keyword == needsVision(userMessage)
        files == uploadedFiles.files
        images == {i \in DOMAIN files : files[i].type = "image"}
        first == CHOOSE i \in images : \A j \in images : i <= j
    IN  IF keyword /\ imageData # "null"
        THEN [kind |-> "vision", image |-> imageData]
        ELSE IF keyword /\ images # {}
        THEN [kind |-> "vision", image |-> files[first].url]
        ELSE IF Len(files) > 0
        THEN [kind |-> "files", image |-> "none"]
        ELSE [kind |-> "text", image |-> "none"]

\* C26: processMessage makes one kind of API call per message, chosen by the
\* fixed priority: every request a message issues is the call WantedCall
\* names for its arguments, a message issues at most one request, and a
\* message that waits for or returns an answer of the API has issued one.
C26_RoutingPriority ==
    \A m \in messages :
        /\ Len(m.requests) <= 1
        /\ \A i \in DOMAIN m.requests :
              m.requests[i] = WantedCall(m.userMessage, m.imageData, m.uploadedFiles)
        /\ (m.pc \in {"fetch", "json"} \/ m.data # "pending") => Len(m.requests) = 1

\* A message with a vision keyword, no camera image and a PDF before an
\* image has been answered through the vision call with that image.
C26_Witness ==
    \E m \in messages :
        /\ needsVision(m.userMessage)
        /\ m.imageData = "null"
        /\ m.uploadedFiles = FilesArray(<<PdfFile, ImageFile("blob:file1")>>)
        /\ m.requests = <<[kind |-> "vision", image |-> "blob:file1"]>>
        /\ m.data # "pending"

\* C27: for each processMessage call whose API request succeeds (a body was
\* obtained), speechSynthesis.speak is called exactly once, with exactly the
\* text that processMessage returns.
C27_EveryResponseSpokenOnce ==
    \A m \in messages : (m.pc = "done" /\ m.data # "pending") => m.spoken = <<m.result>>

\* C27 as amended: where the window has speechSynthesis, a call whose API
\* request succeeds speaks exactly once, exactly the text it returns; where
\* it has none, nothing is spoken and the text is only returned.
C27_ResponseSpokenOnceWhereSpeechExists ==
    \A m \in messages :
        (m.pc = "done" /\ m.data # "pending")
            => /\ m.result = (IF Truthy(m.data) THEN m.data ELSE Fallback(m.path))
               /\ m.spoken = (IF hasSpeech THEN <<m.result>> ELSE <<>>)

\* A call whose body held no text has returned the fallback text and spoken it.
C27_Witness ==
    \E m \in messages :
        /\ hasSpeech
        /\ m.pc = "done"
        /\ m.data = ""
        /\ m.result = Fallback(m.path)
        /\ m.spoken = <<m.result>>
        /\ utterances = <<m.result>>

----------------------------------------------------------------------------
(***************************************************************************)
(* VoiceControls (src/components/VoiceControls.tsx): the speech            *)
(* recognition object with its onstart, onend and onerror handlers,        *)
(* startListening with its microphone-permission request, stopListening    *)
(* and stopSpeaking.  speechSynthesis is the utterance queue the assistant *)
(* speaks into.                                                            *)
(***************************************************************************)

\* startListening calls made in a behaviour.
MaxListens == 2

\* event.error of a SpeechRecognitionErrorEvent: the four the handler names
\* and one it does not.
SpeechErrorCodes == {"not-allowed", "no-speech", "network", "service-not-allowed", "aborted"}

\* The switch of onerror.
SpeechErrorText(code) ==
    CASE code = "not-allowed" ->
            "Microphone access denied. Please allow microphone permissions and try again."
      [] code = "no-speech" -> "No speech detected. Please try again."
      [] code = "network" -> "Network error. Please check your connection."
      [] code = "service-not-allowed" ->
            "Speech service not allowed. Please check your browser settings."
      [] OTHER -> "Speech recognition error. Please try again."

\* A state setter does nothing once the component has unmounted.
VoiceSet(new, old) == IF voiceUnmounted THEN old ELSE new

\* The state the handlers of VoiceControls read and write.
CurVoice ==
    [isRecording |-> isRecording, speechError |-> speechError,
     reportedListening |-> reportedListening, reportedSpeaking |-> reportedSpeaking,
     recognition |-> recognition, utterances |-> utterances, micOpen |-> micOpen]

\* recognition.onstart.
onstart(v) ==
    [v EXCEPT !.isRecording = VoiceSet(TRUE, @),
              !.speechError = VoiceSet("", @),
              !.reportedListening = <<TRUE>>]

\* recognition.onend.
onend(v) ==
    [v EXCEPT !.isRecording = VoiceSet(FALSE, @),
              !.reportedListening = <<FALSE>>]

\* An onerror that sets the message and leaves the parent uninformed.
onerror_KeepsParentListening(v, code) ==
    [v EXCEPT !.isRecording = VoiceSet(FALSE, @),
              !.speechError = VoiceSet(SpeechErrorText(code), @)]

\* recognition.onerror.
onerror(v, code) ==
    [v EXCEPT !.isRecording = VoiceSet(FALSE, @),
              !.reportedListening = <<FALSE>>,
              !.speechError = VoiceSet(SpeechErrorText(code), @)]

\* A startListening call: the isRecording of the closure that was called,
\* whether speechSynthesis.speaking held at the call, the state of the
\* recognition object when the call invoked start() ("none": not invoked),
\* and what the call did, in order.
NewListen(id, closureRecording, speaking) ==
    [id |-> id, isRecording |-> closureRecording, wasSpeaking |-> speaking,
     pc |-> "run", startedIn |-> "none", log |-> <<>>]

Did(r, what) == [r EXCEPT !.l.log = Append(@, what)]

ListenDone(r) == [r EXCEPT !.l.pc = "done"]

\* The outer catch of startListening.
ListenCaught(r) ==
    ListenDone([r EXCEPT !.speechError =
                    VoiceSet("Failed to start speech recognition", @)])

\* getUserMedia({audio: true}) rejected: the message, and return.
micDenied(r) ==
    ListenDone([Did(r, "denied") EXCEPT !.speechError =
        VoiceSet("Microphone access denied. Please allow microphone permissions.", @)])

\* if (!isRecording) recognitionRef.current.start(): isRecording is the value
\* of the closure; start() on an object that has been started and has not
\* ended throws InvalidStateError, which the outer catch takes.
startRecognition(r) ==
    IF r.l.isRecording
    THEN ListenDone(r)
    ELSE LET r1 == [Did(r, "start") EXCEPT !.l.startedIn = r.recognition]
         IN  IF r.recognition = "idle"
             THEN ListenDone([r1 EXCEPT !.recognition = "starting"])
             ELSE ListenCaught(Did(r1, "InvalidStateError"))

\* A startListening that goes to the permission request with the assistant
\* still speaking.
startListening_KeepsSpeaking(r) ==
    IF ~recognitionSupported
    THEN ListenDone([r EXCEPT !.speechError =
                        VoiceSet("Speech recognition not available", @)])
    ELSE IF ~hasSpeech
    THEN ListenCaught(Did(r, "ReferenceError"))
    ELSE IF micSupported
    THEN [Did(r, "getUserMedia") EXCEPT !.l.pc = "mic"]
    ELSE startRecognition(r)

\* startListening up to its await (or to its end where there is none):
\* without a recognition object the message only; speechSynthesis.speaking
\* of a browser without speechSynthesis throws into the outer catch; a
\* speaking synthesis is cancelled and the parent told; then the permission
\* request where mediaDevices.getUserMedia exists.
startListening(r) ==
    IF ~recognitionSupported
    THEN ListenDone([r EXCEPT !.speechError =
                        VoiceSet("Speech recognition not available", @)])
    ELSE IF ~hasSpeech
    THEN ListenCaught(Did(r, "ReferenceError"))
    ELSE LET r1 == IF r.utterances # <<>>
                   THEN Did(Did([r EXCEPT !.utterances = <<>>], "cancel"),
                            "onSpeakingChange(false)")
                   ELSE r
             r2 == IF r.utterances # <<>>
                   THEN [r1 EXCEPT !.reportedSpeaking = <<FALSE>>]
                   ELSE r1
         IN  IF micSupported
             THEN [Did(r2, "getUserMedia") EXCEPT !.l.pc = "mic"]
             ELSE startRecognition(r2)

\* The permission request resolved: its stream is open and nothing holds it.
micGranted(r) ==
    startRecognition([Did(r, "granted") EXCEPT !.micOpen = @ \cup {r.l.id}])

CommitVoice(r) ==
    /\ isRecording' = r.isRecording
    /\ speechError' = r.speechError
    /\ reportedListening' = r.reportedListening
    /\ reportedSpeaking' = r.reportedSpeaking
    /\ recognition' = r.recognition
    /\ utterances' = r.utterances
    /\ micOpen' = r.micOpen
    /\ UNCHANGED <<recognitionSupported, micSupported>>
    /\ UNCHANGED <<hasSpeech, messages, nMessages>>
    /\ UNCHANGED HookVars
    /\ UNCHANGED <<videoReady, video, playPending>>
    /\ UNCHANGED CaptureVars

\* The microphone button while it shows "start": onClick is startListening
\* of the last render, whose isRecording is the one shown.
StartListening ==
    /\ ~voiceUnmounted
    /\ ~isRecording
    /\ nListens < MaxListens
    /\ LET r == startListening(CurVoice @@
                    [l |-> NewListen(nListens + 1, isRecording, utterances # <<>>)])
       IN  /\ listens' = listens \cup {r.l}
           /\ CommitVoice(r)
    /\ nListens' = nListens + 1
    /\ UNCHANGED voiceUnmounted

\* The browser grants the microphone to a waiting startListening.
MicResolves(l) ==
    /\ l.pc = "mic"
    /\ LET r == micGranted(CurVoice @@ [l |-> l])
       IN  /\ listens' = (listens \ {l}) \cup {r.l}
           /\ CommitVoice(r)
    /\ UNCHANGED <<nListens, voiceUnmounted>>

\* The browser refuses the microphone to a waiting startListening.
MicRejects(l) ==
    /\ l.pc = "mic"
    /\ LET r == micDenied(CurVoice @@ [l |-> l])
       IN  /\ listens' = (listens \ {l}) \cup {r.l}
           /\ CommitVoice(r)
    /\ UNCHANGED <<nListens, voiceUnmounted>>

\* The microphone button while it shows "stop": stopListening.
StopListening ==
    /\ ~voiceUnmounted
    /\ isRecording
    /\ CommitVoice([CurVoice EXCEPT !.recognition =
            IF recognitionSupported /\ @ \in {"starting", "started"}
            THEN "ending" ELSE @])
    /\ UNCHANGED <<listens, nListens, voiceUnmounted>>

\* The stop-speaking button: stopSpeaking.
StopSpeaking ==
    /\ ~voiceUnmounted
    /\ hasSpeech
    /\ utterances # <<>>
    /\ CommitVoice([CurVoice EXCEPT !.utterances = <<>>,
                                    !.reportedSpeaking = <<FALSE>>])
    /\ UNCHANGED <<listens, nListens, voiceUnmounted>>

\* The recognition object fires start.
RecognitionStarts ==
    /\ recognition = "starting"
    /\ CommitVoice([onstart(CurVoice) EXCEPT !.recognition = "started"])
    /\ UNCHANGED <<listens, nListens, voiceUnmounted>>

\* The recognition object fires error; end follows.
RecognitionError(code) ==
    /\ recognition \in {"starting", "started", "ending"}
    /\ CommitVoice([onerror(CurVoice, code) EXCEPT !.recognition = "ending"])
    /\ UNCHANGED <<listens, nListens, voiceUnmounted>>

\* The recognition object fires end.
RecognitionEnds ==
    /\ recognition \in {"starting", "started", "ending"}
    /\ CommitVoice([onend(CurVoice) EXCEPT !.recognition = "idle"])
    /\ UNCHANGED <<listens, nListens, voiceUnmounted>>

\* The assistant speaks an answer (speakText of AIProcessor).
AssistantSpeaks ==
    /\ hasSpeech
    /\ CommitVoice([CurVoice EXCEPT !.utterances =
            speakText([m |-> [spoken |-> <<>>], utterances |-> utterances],
                      "Hello, I am NEXUS.").utterances])
    /\ UNCHANGED <<listens, nListens, voiceUnmounted>>

\* VoiceControls unmounts: the cleanup of the effect aborts the recognition.
VoiceUnmount ==
    /\ ~voiceUnmounted
    /\ voiceUnmounted' = TRUE
    /\ CommitVoice([CurVoice EXCEPT !.recognition =
            IF recognitionSupported /\ @ \in {"starting", "started"}
            THEN "ending" ELSE @])
    /\ UNCHANGED <<listens, nListens>>

\* VoiceControls alone: the camera stays as constructed and no message is
\* processed.
InitVoice ==
    /\ InitCamera
    /\ variant = "A1"
    /\ supported
    /\ ~enabled
    /\ hasSpeech \in BOOLEAN
    /\ InitAssistant
    /\ continuousCapture = FALSE
    /\ InitComponent
    /\ recognitionSupported \in BOOLEAN
    /\ micSupported \in BOOLEAN
    /\ InitVoiceControls

NextVoice ==
    \/ StartListening
    \/ \E l \in listens : MicResolves(l)
    \/ \E l \in listens : MicRejects(l)
    \/ StopListening
    \/ StopSpeaking
    \/ RecognitionStarts
    \/ \E code \in SpeechErrorCodes : RecognitionError(code)
    \/ RecognitionEnds
    \/ AssistantSpeaks
    \/ UtteranceEnds
    \/ VoiceUnmount

SpecVoice == InitVoice /\ [][NextVoice]_vars

----------------------------------------------------------------------------
(* Claims C31-C37. *)

\* C31: captureImage returns an image and calls onImageCapture only when
\* the session is Ready and the video is playing: when isReady or videoReady
\* is false or the video/canvas element is absent it returns null and does
\* not call onImageCapture, and it calls onImageCapture exactly once for a
\* non-null result.
C31_CaptureOnlyWhenReady ==
    output.call = "captureImage"
        => /\ (~isReady \/ ~videoReady \/ ~ElementsPresent)
                  => (output.returned = "null" /\ output.onImageCapture = 0)
           /\ output.onImageCapture = (IF output.returned = "null" THEN 0 ELSE 1)
           /\ output.onFrameCapture = 0

\* captureImage has returned an image and called onImageCapture once.
C31_Witness ==
    /\ output.call = "captureImage"
    /\ output.returned = "data"
    /\ output.onImageCapture = 1
    /\ isReady /\ videoReady

PathFailed(m) == m.caught # "none" \/ (m.data # "pending" /\ ~Truthy(m.data))

C34_RecordingAgreesWithReported ==
    (~voiceUnmounted /\ reportedListening # <<>>)
        => reportedListening = <<isRecording>>

\* A recognition session has failed with a network error: onerror has run
\* and end is still to come.
C34_Witness ==
    /\ ~voiceUnmounted
    /\ recognition = "ending"
    /\ reportedListening = <<FALSE>>
    /\ ~isRecording
    /\ speechError = SpeechErrorText("network")

\* C35: recognition.start() is never invoked while a recognition session is
\* started or starting, however startListening calls interleave with the
\* permission request and with onstart.
C35_NoStartWhileStarted ==
    \A l \in listens : l.startedIn \notin {"starting", "started"}

\* C36: the audio stream startListening obtains from getUserMedia to check
\* the permission is released: once a startListening call has completed, no
\* stream it opened is still open.
C36_PermissionStreamReleased ==
    \A l \in listens : l.pc = "done" => l.id \notin micOpen

Has(log, what) == \E i \in 1..Len(log) : log[i] = what

Precedes(log, a, b) ==
    \E i \in 1..Len(log) : \E j \in 1..Len(log) : i < j /\ log[i] = a /\ log[j] = b

\* C37: a startListening call made while speechSynthesis is speaking cancels
\* the synthesis and reports onSpeakingChange(false) before it invokes
\* recognition.start(), and a call whose microphone permission was denied
\* does not invoke recognition.start() at all.
C37_SpeechInterruptedBeforeStart ==
    \A l \in listens :
        /\ (l.wasSpeaking /\ Has(l.log, "start"))
               => /\ Precedes(l.log, "cancel", "onSpeakingChange(false)")
                  /\ Precedes(l.log, "onSpeakingChange(false)", "start")
        /\ Has(l.log, "denied") => ~Has(l.log, "start")

\* One call interrupted the assistant, was granted the microphone and
\* started recognition; another was refused the microphone.
C37_Witness ==
    \E l \in listens : \E d \in listens :
        /\ l.wasSpeaking
        /\ l.log = <<"cancel", "onSpeakingChange(false)", "getUserMedia", "granted", "start">>
        /\ l.startedIn = "idle"
        /\ d.pc = "done"
        /\ Has(d.log, "denied")
        /\ reportedSpeaking = <<FALSE>>

====
